---- MODULE Spec2Model ----
(***************************************************************************)
(* Verification model of the QiAIchemy-backend retrieval core:            *)
(* text utilities (textUtils.ts), the graph relevance engine              *)
(* (graphLite.ts), candidate retrieval and multi-signal fusion            *)
(* (retrieve.ts).                                                          *)
(*                                                                         *)
(* Numbers.  The source computes with IEEE doubles.  The model computes   *)
(* with fixed-point numbers: the integer x stands for the real x / Scale. *)
(* Products and quotients are floored, and are split into partial          *)
(* products so that no intermediate value leaves the 32-bit range.         *)
(***************************************************************************)
EXTENDS Integers, Sequences, FiniteSets, TLC

\* ------------------------------------------------------------------------
\* Fixed-point arithmetic
\* ------------------------------------------------------------------------
Kilo == 1000

Scale == Kilo * Kilo

Abs(x) == IF x < 0 THEN -x ELSE x

Min2(a, b) == IF a < b THEN a ELSE b

Max2(a, b) == IF a > b THEN a ELSE b

\* floor(a*b / Scale) for a, b >= 0, computed from the base-1000 digits
MulNat(a, b) ==
  LET a1 == a \div Kilo
      a0 == a % Kilo
      b1 == b \div Kilo
      b0 == b % Kilo
  IN a1 * b1 + ((a1 * b0 + a0 * b1) + ((a0 * b0) \div Kilo)) \div Kilo

\* (a*b) mod Scale for a, b >= 0
MulRem(a, b) ==
  LET a1 == a \div Kilo
      a0 == a % Kilo
      b1 == b \div Kilo
      b0 == b % Kilo
  IN ((((a1 * b0 + a0 * b1) % Kilo) * Kilo) + a0 * b0) % Scale

\* a * b on fixed-point numbers (truncation toward zero)
FMul(a, b) ==
  IF (a < 0) = (b < 0) THEN MulNat(Abs(a), Abs(b)) ELSE -MulNat(Abs(a), Abs(b))

RECURSIVE LongDiv(_, _, _, _)
\* long division in base 10: the quotient digits of r / b, n digits deep
LongDiv(r, b, n, acc) ==
  IF n = 0 THEN acc
  ELSE LongDiv((r * 10) % b, b, n - 1, acc * 10 + (r * 10) \div b)

\* floor(a*Scale / b) for a >= 0 and 0 < b < 2^31 / 10
DivNat(a, b) == (a \div b) * Scale + LongDiv(a % b, b, 6, 0)

\* a / b on fixed-point numbers, b # 0
FDiv(a, b) ==
  IF (a < 0) = (b < 0) THEN DivNat(Abs(a), Abs(b)) ELSE -DivNat(Abs(a), Abs(b))

\* the integer n as a fixed-point number
I2F(n) == n * Scale

\* the decimal literal n / 100 and n / 1000 as fixed-point numbers
Pct(n) == n * (Scale \div 100)

Mil(n) == n * (Scale \div Kilo)

RECURSIVE SqrtSearch(_, _, _)
\* largest y in lo..hi with y*y <= x*Scale (lo satisfies it)
SqrtSearch(x, lo, hi) ==
  IF lo >= hi THEN lo
  ELSE LET mid == (lo + hi + 1) \div 2
           sq  == MulNat(mid, mid)
           ok  == sq < x \/ (sq = x /\ MulRem(mid, mid) = 0)
       IN IF ok THEN SqrtSearch(x, mid, hi) ELSE SqrtSearch(x, lo, mid - 1)

\* Math.sqrt on a fixed-point number 0 <= x <= 900
FSqrt(x) == SqrtSearch(x, 0, Min2(Max2(x, Scale), 30000 * Kilo))

\* Math.round on a fixed-point number x >= 0 (result is an integer)
FRound(x) == (x + Scale \div 2) \div Scale

\* ------------------------------------------------------------------------
\* Text utilities (textUtils.ts).  A text is a sequence of characters; a
\* character is one of the names below.
\* ------------------------------------------------------------------------
\* Han-script characters (named by their reading)
HanChars == {"qi", "xu", "fa", "li", "tiao", "tong", "shi", "bing", "qie", "yi", "ji",
             "guan", "lian", "xi", "ru", "he", "zen", "me", "ying", "xiang", "wei",
             "shen", "zong"}

LowerAlnum == {"a", "b", "c", "1"}

UpperAlpha == {"A", "B"}

\* characters removed by String.prototype.trim
WhiteChars == {"SP", "TAB", "LF", "CR", "IDSP"}

PunctChars == {"."}

Chars == HanChars \cup LowerAlnum \cup UpperAlpha \cup WhiteChars \cup PunctChars

\* String.prototype.toLowerCase on one character
LowerChar(c) == IF c = "A" THEN "a" ELSE IF c = "B" THEN "b" ELSE c

toLowerCase(t) == [i \in 1..Len(t) |-> LowerChar(t[i])]

\* CHINESE_CHAR_REGEX.test(char)
CHINESE_CHAR_REGEX(c) == c \in HanChars

\* Array.prototype.slice(from, to) with 0-based from, exclusive to
Slice(s, from, to) ==
  LET hi == Min2(Max2(to, 0), Len(s))
      lo == Min2(Max2(from, 0), hi)
  IN SubSeq(s, lo + 1, hi)

\* the sequence s itself; TLC tabulates it here instead of re-evaluating
\* its elements at every later use
Tabulate(s) == s \o <<>>

RECURSIVE ReplaceCrLf(_)
\* .replace(/\r\n/g, '\n')
ReplaceCrLf(t) ==
  IF t = <<>> THEN <<>>
  ELSE IF Len(t) >= 2 /\ t[1] = "CR" /\ t[2] = "LF"
       THEN <<"LF">> \o ReplaceCrLf(Slice(t, 2, Len(t)))
       ELSE <<t[1]>> \o ReplaceCrLf(Tail(t))

\* .replace(/　/g, ' ')
ReplaceIdeographicSpace(t) == [i \in 1..Len(t) |-> IF t[i] = "IDSP" THEN "SP" ELSE t[i]]

RECURSIVE CollapseBlanks(_)
\* .replace(/[ \t]+/g, ' ')
CollapseBlanks(t) ==
  IF t = <<>> THEN <<>>
  ELSE IF t[1] \in {"SP", "TAB"}
       THEN IF Len(t) >= 2 /\ t[2] \in {"SP", "TAB"}
            THEN CollapseBlanks(Tail(t))
            ELSE <<"SP">> \o CollapseBlanks(Tail(t))
       ELSE <<t[1]>> \o CollapseBlanks(Tail(t))

RECURSIVE CollapseNewlines(_)
\* .replace(/\n{3,}/g, '\n\n')
CollapseNewlines(t) ==
  IF t = <<>> THEN <<>>
  ELSE IF Len(t) >= 3 /\ t[1] = "LF" /\ t[2] = "LF" /\ t[3] = "LF"
       THEN CollapseNewlines(Tail(t))
       ELSE <<t[1]>> \o CollapseNewlines(Tail(t))

RECURSIVE TrimStart(_)
TrimStart(t) ==
  IF t # <<>> /\ t[1] \in WhiteChars THEN TrimStart(Tail(t)) ELSE t

RECURSIVE TrimEnd(_)
TrimEnd(t) ==
  IF t # <<>> /\ t[Len(t)] \in WhiteChars THEN TrimEnd(SubSeq(t, 1, Len(t) - 1)) ELSE t

\* String.prototype.trim
Trim(t) == TrimEnd(TrimStart(t))

normalizeText(input) ==
  Trim(CollapseNewlines(CollapseBlanks(ReplaceIdeographicSpace(ReplaceCrLf(input)))))

RECURSIVE SplitLoop(_, _, _, _)
\* the for loop of splitIntoChunks from `start` on: the chunks pushed
SplitLoop(normalized, chunkSize, step, start) ==
  IF start >= Len(normalized) THEN <<>>
  ELSE LET end   == Min2(start + chunkSize, Len(normalized))
           chunk == Trim(Slice(normalized, start, end))
       IN (IF chunk # <<>> THEN <<chunk>> ELSE <<>>)
            \o (IF end = Len(normalized) THEN <<>>
                ELSE SplitLoop(normalized, chunkSize, step, start + step))

splitIntoChunks(text, chunkSize, overlap) ==
  IF normalizeText(text) = <<>> THEN <<>>
  ELSE IF Len(normalizeText(text)) <= chunkSize THEN <<normalizeText(text)>>
  ELSE SplitLoop(normalizeText(text), chunkSize, Max2(chunkSize - overlap, 1), 0)

RECURSIVE AlnumRuns(_, _)
\* normalized.match(/[a-z0-9]{2,}/g): the maximal runs of two or more
\* lower-case letters or digits, left to right (cur is the run being read)
AlnumRuns(t, cur) ==
  IF t = <<>> THEN (IF Len(cur) >= 2 THEN <<cur>> ELSE <<>>)
  ELSE IF t[1] \in LowerAlnum
       THEN AlnumRuns(Tail(t), Append(cur, t[1]))
       ELSE (IF Len(cur) >= 2 THEN <<cur>> ELSE <<>>) \o AlnumRuns(Tail(t), <<>>)

\* the sliding window of two over the Han characters of the text
ChineseBigrams(hanChars) ==
  [i \in 1..(Len(hanChars) - 1) |-> <<hanChars[i], hanChars[i + 1]>>]

RECURSIVE Uniq(_, _)
\* insertion-ordered Set: first occurrence of every element, in order
Uniq(s, seen) ==
  IF s = <<>> THEN <<>>
  ELSE IF s[1] \in seen THEN Uniq(Tail(s), seen)
       ELSE <<s[1]>> \o Uniq(Tail(s), seen \cup {s[1]})

SeqToSet(s) == {s[i] : i \in 1..Len(s)}

tokenizeForSearch(input) ==
  LET normalized     == toLowerCase(normalizeText(input))
      englishTokens  == AlnumRuns(normalized, <<>>)
      hanChars       == SelectSeq(normalized, CHINESE_CHAR_REGEX)
      chineseBigrams == ChineseBigrams(hanChars)
      merged         == englishTokens \o chineseBigrams
      IsLong(token)  == Len(token) >= 2
  IN Uniq(SelectSeq(merged, IsLong), {})

\* lexicalSimilarity(queryTokens, docTokens)
lexicalSimilarity(queryTokens, docTokens) ==
  IF Len(queryTokens) = 0 \/ Len(docTokens) = 0 THEN 0
  ELSE LET docSet == SeqToSet(docTokens)
           hits   == Cardinality({i \in 1..Len(queryTokens) : queryTokens[i] \in docSet})
       IN FDiv(I2F(hits), FSqrt(I2F(Len(queryTokens) * Len(docTokens))))

RECURSIVE SumSeq(_)
SumSeq(s) == IF s = <<>> THEN 0 ELSE s[1] + SumSeq(Tail(s))

\* the dot product alone, without the division by the two magnitudes
cosineSimilarityNoNorm(vectorA, vectorB) ==
  IF Len(vectorA) = 0 \/ Len(vectorB) = 0 \/ Len(vectorA) # Len(vectorB) THEN 0
  ELSE I2F(SumSeq([i \in 1..Len(vectorA) |-> vectorA[i] * vectorB[i]]))

\* cosineSimilarity(vectorA, vectorB); vector components are integers
cosineSimilarity(vectorA, vectorB) ==
  IF Len(vectorA) = 0 \/ Len(vectorB) = 0 \/ Len(vectorA) # Len(vectorB) THEN 0
  ELSE LET dot  == SumSeq([i \in 1..Len(vectorA) |-> vectorA[i] * vectorB[i]])
           magA == SumSeq([i \in 1..Len(vectorA) |-> vectorA[i] * vectorA[i]])
           magB == SumSeq([i \in 1..Len(vectorB) |-> vectorB[i] * vectorB[i]])
       IN IF magA = 0 \/ magB = 0 THEN 0
          ELSE FDiv(I2F(dot), FMul(FSqrt(I2F(magA)), FSqrt(I2F(magB))))

\* ------------------------------------------------------------------------
\* Graph relevance engine (graphLite.ts)
\* ------------------------------------------------------------------------
\* a null reference
NONE == "none"

clamp(value, min, max) == Max2(min, Min2(max, value))

\* Map.get(key) ?? dflt on a map modelled as a function
Get(map, key, dflt) == IF key \in DOMAIN map THEN map[key] ELSE dflt

\* Map.set(key, value)
Put(map, key, value) ==
  [k \in (DOMAIN map) \cup {key} |-> IF k = key THEN value ELSE map[k]]

EmptyMap == [k \in {} |-> 0]

RECURSIVE JoinTexts(_)
\* Array.prototype.join(' ')
JoinTexts(texts) ==
  IF texts = <<>> THEN <<>>
  ELSE IF Len(texts) = 1 THEN texts[1]
       ELSE texts[1] \o <<"SP">> \o JoinTexts(Tail(texts))

\* tokenizeForSearch([node.label, ...(node.aliases ?? [])].join(' '))
NodeTokens(node) == tokenizeForSearch(JoinTexts(<<node.label>> \o node.aliases))

RECURSIVE UniquePushAll(_, _, _)
\* uniquePushMap(map, token, value) for every token of the list
UniquePushAll(map, tokens, value) ==
  IF tokens = <<>> THEN map
  ELSE LET existing == Get(map, tokens[1], <<>>)
           updated  == IF value \in SeqToSet(existing) THEN existing
                       ELSE Append(existing, value)
       IN UniquePushAll(Put(map, tokens[1], updated), Tail(tokens), value)

RECURSIVE CountAll(_, _)
\* tokenDf.set(token, (tokenDf.get(token) ?? 0) + 1) for every token of the list
CountAll(map, tokens) ==
  IF tokens = <<>> THEN map
  ELSE CountAll(Put(map, tokens[1], Get(map, tokens[1], 0) + 1), Tail(tokens))

RECURSIVE BuildNodes(_, _)
\* the first loop of buildRuntime, over doc.nodes
BuildNodes(nodes, rt) ==
  IF nodes = <<>> THEN rt
  ELSE LET node == nodes[1]
       IN IF node.id = "" \/ node.label = <<>>
          THEN BuildNodes(Tail(nodes), rt)
          ELSE LET tokens == NodeTokens(node)
                   rt2 == [nodes |-> IF node.id \in SeqToSet(rt.nodes) THEN rt.nodes
                                     ELSE Append(rt.nodes, node.id),
                           nodeMap |-> Put(rt.nodeMap, node.id, node),
                           adj |-> IF node.id \in DOMAIN rt.adj THEN rt.adj
                                   ELSE Put(rt.adj, node.id, <<>>),
                           tokenToNodeIds |-> UniquePushAll(rt.tokenToNodeIds, tokens, node.id),
                           tokenDf |-> CountAll(rt.tokenDf, tokens)]
               IN BuildNodes(Tail(nodes), rt2)

RECURSIVE BuildEdgesNoClamp(_, _)
\* the edge loop with the weight taken as it is given
BuildEdgesNoClamp(edges, rt) ==
  IF edges = <<>> THEN rt
  ELSE LET edge == edges[1]
       IN IF edge.from \notin DOMAIN rt.nodeMap \/ edge.to \notin DOMAIN rt.nodeMap
          THEN BuildEdgesNoClamp(Tail(edges), rt)
          ELSE LET weight == IF edge.hasWeight THEN edge.weight ELSE I2F(1)
                   adj1 == Put(rt.adj, edge.from,
                               Append(rt.adj[edge.from], [to |-> edge.to, weight |-> weight]))
                   adj2 == IF edge.undirected
                           THEN Put(adj1, edge.to,
                                    Append(adj1[edge.to], [to |-> edge.from, weight |-> weight]))
                           ELSE adj1
               IN BuildEdgesNoClamp(Tail(edges), [rt EXCEPT !.adj = adj2])

RECURSIVE BuildEdges(_, _)
\* the second loop of buildRuntime, over doc.edges
BuildEdges(edges, rt) ==
  IF edges = <<>> THEN rt
  ELSE LET edge == edges[1]
       IN IF edge.from \notin DOMAIN rt.nodeMap \/ edge.to \notin DOMAIN rt.nodeMap
          THEN BuildEdges(Tail(edges), rt)
          ELSE LET weight == clamp(IF edge.hasWeight THEN edge.weight ELSE I2F(1),
                                   Pct(1), I2F(10))
                   adj1 == Put(rt.adj, edge.from,
                               Append(rt.adj[edge.from], [to |-> edge.to, weight |-> weight]))
                   adj2 == IF edge.undirected
                           THEN Put(adj1, edge.to,
                                    Append(adj1[edge.to], [to |-> edge.from, weight |-> weight]))
                           ELSE adj1
               IN BuildEdges(Tail(edges), [rt EXCEPT !.adj = adj2])

\* buildRuntime throws a TypeError when it reads node.id of a null entry
\* of doc.nodes (JSON allows null array elements)
BuildRuntimeThrows(doc) == \E i \in 1..Len(doc.nodes) : doc.nodes[i].isNull

buildRuntime(doc) ==
  BuildEdges(doc.edges,
             BuildNodes(doc.nodes,
                        [nodes |-> <<>>, nodeMap |-> EmptyMap, adj |-> EmptyMap,
                         tokenToNodeIds |-> EmptyMap, tokenDf |-> EmptyMap]))

\* Array.prototype.includes on strings: needle occurs in text
Includes(text, needle) ==
  \E i \in 0..(Len(text) - Len(needle)) :
     \A j \in 1..Len(needle) : text[i + j] = needle[j]

parseChineseBigramCount(text) ==
  Max2(0, Len(SelectSeq(text, CHINESE_CHAR_REGEX)) - 1)

multiHopHints ==
  << <<"tong", "shi">>, <<"bing", "qie">>, <<"yi", "ji">>, <<"guan", "lian">>,
     <<"guan", "xi">>, <<"ru", "he">>, <<"zen", "me">>, <<"ying", "xiang">>,
     <<"wei", "shen", "me">>, <<"zong", "he">> >>

estimateQueryComplexity(queryText) ==
  LET normalized  == toLowerCase(queryText)
      hintCount   == Cardinality({i \in 1..Len(multiHopHints) :
                                    Includes(normalized, multiHopHints[i])})
      lengthScore == clamp(FDiv(I2F(Len(normalized)), I2F(60)), 0, I2F(1))
      bigramScore == clamp(FDiv(I2F(parseChineseBigramCount(normalized)), I2F(24)), 0, I2F(1))
      hintScore   == clamp(FDiv(I2F(hintCount), I2F(4)), 0, I2F(1))
  IN clamp(FMul(hintScore, Pct(50)) + FMul(lengthScore, Pct(25)) + FMul(bigramScore, Pct(25)),
           0, I2F(1))

RECURSIVE AddToAll(_, _, _)
\* seeds.set(id, (seeds.get(id) ?? 0) + incr) for every id of the list
AddToAll(seeds, ids, incr) ==
  IF ids = <<>> THEN seeds
  ELSE AddToAll(Put(seeds, ids[1], Get(seeds, ids[1], 0) + incr), Tail(ids), incr)

RECURSIVE SeedLoop(_, _, _, _)
\* the token loop of buildSeedScores
SeedLoop(graph, tokens, seeds, matchedTokens) ==
  IF tokens = <<>> THEN [seeds |-> seeds, matchedTokens |-> matchedTokens]
  ELSE LET ids == Get(graph.tokenToNodeIds, tokens[1], <<>>)
       IN IF Len(ids) = 0
          THEN SeedLoop(graph, Tail(tokens), seeds, matchedTokens)
          ELSE SeedLoop(graph, Tail(tokens),
                        AddToAll(seeds, ids, FDiv(I2F(1), I2F(Len(ids)))),
                        matchedTokens \cup {tokens[1]})

\* Math.max over the values of a non-empty map
MaxValue(map) == CHOOSE v \in {map[k] : k \in DOMAIN map} :
                    \A k \in DOMAIN map : map[k] <= v

RECURSIVE SumSet(_, _)
\* the sum of f over the finite set S
SumSet(f, S) ==
  IF S = {} THEN 0
  ELSE LET x == CHOOSE y \in S : TRUE IN f[x] + SumSet(f, S \ {x})

\* graphContext is a text; the absent context (undefined) is the empty text,
\* which is what `graphContext ?? ''` makes of it
buildSeedScores(graph, queryText, graphContext) ==
  LET merged  == queryText \o <<"LF">> \o graphContext
      tokens  == tokenizeForSearch(merged)
      looped  == SeedLoop(graph, tokens, EmptyMap, {})
      seeds   == looped.seeds
      max     == MaxValue(seeds)
      normed  == IF DOMAIN seeds = {} THEN seeds
                 ELSE [id \in DOMAIN seeds |-> FDiv(seeds[id], max)]
  IN [seeds |-> normed, matchedTokens |-> looped.matchedTokens,
      allQueryTokens |-> tokenizeForSearch(queryText)]

\* the delta threshold 1e-6 of runPersonalizedPageRank
PprDelta == Scale \div 1000000

\* default of the maxIter parameter of runPersonalizedPageRank
PprMaxIter == 30

\* one pass of the body of the power iteration: the next score vector
PprStep(graph, seeds, seedNorm, alpha, scores) ==
  LET ids == SeqToSet(graph.nodes)
      restart(id) == FMul(Scale - alpha, FDiv(Get(seeds, id, 0), seedNorm))
      outgoing(u) == Get(graph.adj, u, <<>>)
      weightSum(u) == LET w == SumSeq([i \in 1..Len(outgoing(u)) |-> outgoing(u)[i].weight])
                      IN IF w = 0 THEN I2F(1) ELSE w
      \* what node u hands to node id
      flow(u, id) ==
        IF Len(outgoing(u)) = 0
        THEN (IF u = id THEN FMul(alpha, scores[u]) ELSE 0)
        ELSE SumSeq([i \in 1..Len(outgoing(u)) |->
                       IF outgoing(u)[i].to = id
                       THEN FMul(FMul(alpha, scores[u]),
                                 FDiv(outgoing(u)[i].weight, weightSum(u)))
                       ELSE 0])
      inflow(id) == SumSet([u \in ids |-> flow(u, id)], ids)
  IN [id \in ids |-> restart(id) + inflow(id)]

RECURSIVE PprLoopOneMore(_, _, _, _, _, _, _)
\* the loop with the test `iter <= maxIter`: one pass too many
PprLoopOneMore(graph, seeds, seedNorm, alpha, maxIter, iter, scores) ==
  IF iter > maxIter THEN [scores |-> scores, iterations |-> iter]
  ELSE LET next  == PprStep(graph, seeds, seedNorm, alpha, scores)
           ids   == SeqToSet(graph.nodes)
           delta == SumSet([id \in ids |-> Abs(next[id] - scores[id])], ids)
       IN IF next = scores \/ delta < PprDelta
          THEN [scores |-> next, iterations |-> iter + 1]
          ELSE PprLoopOneMore(graph, seeds, seedNorm, alpha, maxIter, iter + 1, next)

RECURSIVE PprLoop(_, _, _, _, _, _, _)
\* the for loop of runPersonalizedPageRank; returns the scores and the
\* number of iterations run
PprLoop(graph, seeds, seedNorm, alpha, maxIter, iter, scores) ==
  IF iter >= maxIter THEN [scores |-> scores, iterations |-> iter]
  ELSE LET next  == PprStep(graph, seeds, seedNorm, alpha, scores)
           ids   == SeqToSet(graph.nodes)
           delta == SumSet([id \in ids |-> Abs(next[id] - scores[id])], ids)
       \* (next = scores implies delta = 0; the test makes TLC tabulate next)
       IN IF next = scores \/ delta < PprDelta
          THEN [scores |-> next, iterations |-> iter + 1]
          ELSE PprLoop(graph, seeds, seedNorm, alpha, maxIter, iter + 1, next)

\* runPersonalizedPageRank with the trace of its iteration count
PprRun(graph, seeds, alpha, maxIter) ==
  IF Len(graph.nodes) = 0 \/ DOMAIN seeds = {}
  THEN [scores |-> EmptyMap, iterations |-> 0]
  ELSE LET sum      == SumSet(seeds, DOMAIN seeds)
           seedNorm == IF sum = 0 THEN I2F(1) ELSE sum
           init     == [id \in SeqToSet(graph.nodes) |-> FDiv(Get(seeds, id, 0), seedNorm)]
       IN PprLoop(graph, seeds, seedNorm, alpha, maxIter, 0, init)

runPersonalizedPageRank(graph, seeds, alpha) ==
  PprRun(graph, seeds, alpha, PprMaxIter).scores

\* Array.prototype.sort((a, b) => b.key - a.key) is stable: the result lists
\* the indices by key descending, equal keys in their original order.
\* RankDesc(keys, i) is the 1-based position of element i in the result.
RankDesc(keys, i) ==
  1 + Cardinality({j \in 1..Len(keys) :
                     keys[j] > keys[i] \/ (keys[j] = keys[i] /\ j < i)})

\* the sorted order as a sequence of indices into keys
SortDescOrder(keys) ==
  LET ks    == Tabulate(keys)
      ranks == Tabulate([i \in 1..Len(ks) |-> RankDesc(ks, i)])
  IN Tabulate([p \in 1..Len(ks) |-> CHOOSE i \in 1..Len(ks) : ranks[i] = p])

RECURSIVE AtanhSeries(_, _, _, _)
\* z + z^3/3 + z^5/5 + ... : `power` is z^k, n terms are still to be added
AtanhSeries(zz, power, k, n) ==
  IF n = 0 \/ power = 0 THEN 0
  ELSE FDiv(power, I2F(k)) + AtanhSeries(zz, FMul(power, zz), k + 2, n - 1)

\* Math.log(x) for a fixed-point x >= 1, as 2 * atanh((x - 1) / (x + 1))
FLn(x) ==
  LET z == FDiv(x - Scale, x + Scale)
  IN 2 * AtanhSeries(FMul(z, z), z, 1, 40)

RECURSIVE BoostTokens(_, _, _, _, _)
\* the inner loop of buildTokenBoostMap, over the tokens of one node
BoostTokens(graph, tokens, score, totalNodeCount, tokenBoost) ==
  IF tokens = <<>> THEN tokenBoost
  ELSE LET df       == Get(graph.tokenDf, tokens[1], 1)
           idf      == FLn(Scale + FDiv(I2F(totalNodeCount), I2F(df)))
           weighted == FMul(score, idf)
           prev     == Get(tokenBoost, tokens[1], 0)
       IN BoostTokens(graph, Tail(tokens), score, totalNodeCount,
                      Put(tokenBoost, tokens[1], Max2(prev, weighted)))

RECURSIVE BoostNodes(_, _, _, _)
\* the outer loop of buildTokenBoostMap, over the sorted [nodeId, score] pairs
BoostNodes(graph, sorted, totalNodeCount, tokenBoost) ==
  IF sorted = <<>> THEN tokenBoost
  ELSE IF sorted[1].nodeId \notin DOMAIN graph.nodeMap
       THEN BoostNodes(graph, Tail(sorted), totalNodeCount, tokenBoost)
       ELSE BoostNodes(graph, Tail(sorted), totalNodeCount,
                       BoostTokens(graph, NodeTokens(graph.nodeMap[sorted[1].nodeId]),
                                   sorted[1].score, totalNodeCount, tokenBoost))

\* [...nodeScores.entries()].sort((a, b) => b[1] - a[1]); the entries of the
\* map are in the order of graph.nodes
SortedEntries(graph, nodeScores) ==
  LET entries == SelectSeq(graph.nodes, LAMBDA id : id \in DOMAIN nodeScores)
      keys    == [i \in 1..Len(entries) |-> nodeScores[entries[i]]]
      order   == SortDescOrder(keys)
  IN [p \in 1..Len(entries) |->
        [nodeId |-> entries[order[p]], score |-> nodeScores[entries[order[p]]]]]

buildTokenBoostMap(graph, nodeScores, topNodeLimit) ==
  LET sorted == Slice(SortedEntries(graph, nodeScores), 0, topNodeLimit)
      totalNodeCount == Max2(Len(graph.nodes), 1)
  IN BoostNodes(graph, sorted, totalNodeCount, EmptyMap)

sumTopScores(graph, nodeScores, topN) ==
  LET top == Slice(SortedEntries(graph, nodeScores), 0, topN)
  IN SumSeq([i \in 1..Len(top) |-> top[i].score])

graphTokenSimilarity(docTokens, tokenBoost) ==
  IF Len(docTokens) = 0 \/ DOMAIN tokenBoost = {} THEN 0
  ELSE LET seen     == SeqToSet(docTokens)
           hitScore == SumSet([t \in seen |-> Get(tokenBoost, t, 0)], seen)
           size     == Cardinality(DOMAIN tokenBoost)
       IN FDiv(hitScore, FSqrt(I2F(Len(docTokens) * Max2(size, 1))))

\* reciprocalRankFusion(rank, k = 60)
RrfK == 60

reciprocalRankFusion(rank) == FDiv(I2F(1), I2F(RrfK + rank))

\* The pure part of computeGraphQueryFeatures: everything after
\* `const graph = await getGraph()`, in stages; cfg is the env record.
\* the object computeGraphQueryFeatures returns (topNodes left out), with
\* the intermediate values seedCoverage, iterations and nodeScores kept
FeaturesRecord(tokenBoost, confidence, adaptiveAlpha, adaptiveTopNodes, seedCoverage, iterations, nodeScores) ==
  [tokenBoost |-> tokenBoost, confidence |-> confidence,
   adaptiveAlpha |-> adaptiveAlpha, adaptiveTopNodes |-> adaptiveTopNodes,
   seedCoverage |-> seedCoverage, iterations |-> iterations, nodeScores |-> nodeScores]

\* adaptiveAlpha without its clamp
AdaptiveAlphaNoClamp(complexity, cfg) ==
  cfg.RAG_GRAPH_PPR_ALPHA - FMul(Scale - complexity, Pct(18))

AdaptiveAlpha(complexity, cfg) ==
  clamp(cfg.RAG_GRAPH_PPR_ALPHA - FMul(Scale - complexity, Pct(18)),
        Pct(60), cfg.RAG_GRAPH_PPR_ALPHA)

AdaptiveTopNodes(complexity, cfg) ==
  Max2(4, Min2(cfg.RAG_GRAPH_TOP_NODES,
               FRound(cfg.RAG_GRAPH_TOP_NODES * (Pct(45) + FMul(complexity, Pct(55))))))

\* matchedTokens.size / Math.max(allQueryTokens.length, 1)
SeedCoverage(built) ==
  FDiv(I2F(Cardinality(built.matchedTokens)), I2F(Max2(Len(built.allQueryTokens), 1)))

Concentration(top3Mass, topNMass) ==
  IF topNMass > 0 THEN FDiv(top3Mass, topNMass) ELSE 0

Confidence(seedCoverage, concentration, complexity) ==
  clamp(FMul(seedCoverage, Pct(45)) + FMul(concentration, Pct(35))
          + FMul(complexity, Pct(20)), 0, I2F(1))

\* computeGraphQueryFeatures once the PageRank scores are known
FeaturesFromRun(graph, built, complexity, adaptiveAlpha, adaptiveTopNodes, run) ==
  FeaturesRecord(buildTokenBoostMap(graph, run.scores, adaptiveTopNodes),
                 Confidence(SeedCoverage(built),
                            Concentration(sumTopScores(graph, run.scores, 3),
                                          sumTopScores(graph, run.scores, adaptiveTopNodes)),
                            complexity),
                 adaptiveAlpha, adaptiveTopNodes, SeedCoverage(built),
                 run.iterations, run.scores)

\* computeGraphQueryFeatures once the seeds are known
FeaturesFromSeeds(graph, built, complexity, adaptiveAlpha, adaptiveTopNodes) ==
  IF DOMAIN built.seeds = {}
  THEN FeaturesRecord(EmptyMap, 0, adaptiveAlpha, adaptiveTopNodes, 0, 0, EmptyMap)
  ELSE FeaturesFromRun(graph, built, complexity, adaptiveAlpha, adaptiveTopNodes,
                       PprRun(graph, built.seeds, adaptiveAlpha, PprMaxIter))

\* computeGraphQueryFeatures with a graph, once the complexity is known
FeaturesWithGraph(graph, queryText, graphContext, complexity, cfg) ==
  FeaturesFromSeeds(graph, buildSeedScores(graph, queryText, graphContext), complexity,
                    AdaptiveAlpha(complexity, cfg), AdaptiveTopNodes(complexity, cfg))

\* computeGraphQueryFeatures, given what getGraph returned: <<>> for null,
\* <<runtime>> otherwise
GraphFeaturesOf(graphOpt, queryText, graphContext, cfg) ==
  IF graphOpt = <<>>
  THEN FeaturesRecord(EmptyMap, 0, cfg.RAG_GRAPH_PPR_ALPHA, cfg.RAG_GRAPH_TOP_NODES,
                      0, 0, EmptyMap)
  ELSE FeaturesWithGraph(graphOpt[1], queryText, graphContext,
                         estimateQueryComplexity(queryText), cfg)

\* ------------------------------------------------------------------------
\* Candidate retrieval and fusion (retrieve.ts)
\* ------------------------------------------------------------------------
\* computeGraphWeight without the test of the confidence threshold
computeGraphWeightNoThreshold(embeddingEnabled, confidence, cfg) ==
  IF embeddingEnabled
  THEN clamp(Pct(4) + FMul(confidence, Pct(12)), Pct(4), cfg.RAG_GRAPH_MAX_WEIGHT)
  ELSE clamp(Pct(5) + FMul(confidence, Pct(8)), Pct(5), cfg.RAG_GRAPH_MAX_WEIGHT)

computeGraphWeight(embeddingEnabled, confidence, cfg) ==
  IF confidence < cfg.RAG_GRAPH_MIN_CONFIDENCE THEN 0
  ELSE IF embeddingEnabled
       THEN clamp(Pct(4) + FMul(confidence, Pct(12)), Pct(4), cfg.RAG_GRAPH_MAX_WEIGHT)
       ELSE clamp(Pct(5) + FMul(confidence, Pct(8)), Pct(5), cfg.RAG_GRAPH_MAX_WEIGHT)

graphDocGate(lexicalScore, embeddingScore) ==
  clamp(FMul(lexicalScore, Pct(240)) + FMul(embeddingScore, Pct(90)) + Pct(8), 0, I2F(1))

\* the tokens loadCandidates turns into regular expressions
CandidateTokens(query) ==
  SelectSeq(Slice(tokenizeForSearch(query), 0, 8), LAMBDA token : Len(token) >= 2)

\* new RegExp(escapeRegExp(token), 'i').test(field)
RegexTest(token, field) == Includes(toLowerCase(field), toLowerCase(token))

\* the $or filter of the primary query
PrimaryMatch(tokens, passage) ==
  \E i \in 1..Len(tokens) :
     \/ RegexTest(tokens[i], passage.text)
     \/ RegexTest(tokens[i], passage.sourceTitle)
     \/ RegexTest(tokens[i], passage.sectionTitle)

\* the primary query without its limit
PrimaryQueryNoLimit(docs, query, limit) ==
  LET tokens == CandidateTokens(query)
  IN IF Len(tokens) = 0 THEN <<>>
     ELSE SelectSeq(docs, LAMBDA p : PrimaryMatch(tokens, p))

\* KnowledgeChunk.find({$or: ...}).limit(limit), or [] without any token;
\* docs is the collection in its natural order
PrimaryQuery(docs, query, limit) ==
  LET tokens == CandidateTokens(query)
  IN IF Len(tokens) = 0 THEN <<>>
     ELSE Slice(SelectSeq(docs, LAMBDA p : PrimaryMatch(tokens, p)), 0, limit)

\* the fallback find without the $nin filter
FallbackQueryNoExclude(docs, primary, limit) ==
  LET order  == SortDescOrder([i \in 1..Len(docs) |-> docs[i].updatedAt])
      sorted == Tabulate([i \in 1..Len(docs) |-> docs[order[i]]])
  IN Slice(sorted, 0, Max2(limit - Len(primary), 0))

\* KnowledgeChunk.find({_id: {$nin: existingIds}}).sort({updatedAt: -1}).limit(n)
FallbackQuery(docs, primary, limit) ==
  LET existingIds == {primary[i].id : i \in 1..Len(primary)}
      rest   == SelectSeq(docs, LAMBDA p : p.id \notin existingIds)
      order  == SortDescOrder([i \in 1..Len(rest) |-> rest[i].updatedAt])
      sorted == Tabulate([i \in 1..Len(rest) |-> rest[order[i]]])
  IN Slice(sorted, 0, Max2(limit - Len(primary), 0))

\* the weights `let embeddingWeight` and `let lexicalWeight` start from
ChannelWeightsInitial(embeddingEnabled, graphWeight) ==
  [embeddingWeight |-> IF embeddingEnabled THEN Pct(70) ELSE 0,
   lexicalWeight   |-> IF embeddingEnabled THEN Pct(30) ELSE Scale]

\* the weights of the embedding and lexical channels after the `if`
ChannelWeights(embeddingEnabled, graphWeight) ==
  LET embeddingWeight == IF embeddingEnabled
                         THEN clamp(Pct(76) - FMul(graphWeight, Pct(85)), Pct(58), Pct(76))
                         ELSE 0
  IN [embeddingWeight |-> embeddingWeight,
      lexicalWeight   |-> IF embeddingEnabled
                          THEN clamp(Scale - embeddingWeight - graphWeight, Pct(16), Pct(34))
                          ELSE clamp(Scale - graphWeight, Pct(80), Scale)]

\* the scoring callback of `candidates.map`, for one candidate
ScoreCandidate(candidate, queryTokens, queryEmbedding, graphFeatures, cfg) ==
  LET docTokens       == IF Len(candidate.keywords) > 0 THEN candidate.keywords
                         ELSE tokenizeForSearch(candidate.text)
      lexicalScore    == lexicalSimilarity(queryTokens, docTokens)
      embeddingScore  == cosineSimilarity(queryEmbedding, candidate.embedding)
      rawGraphScore   == graphTokenSimilarity(docTokens, graphFeatures.tokenBoost)
      gatedGraphScore == FMul(rawGraphScore, graphDocGate(lexicalScore, embeddingScore))
      graphWeight     == computeGraphWeight(Len(queryEmbedding) > 0, graphFeatures.confidence, cfg)
      weights         == ChannelWeights(Len(queryEmbedding) > 0, graphWeight)
      embeddingWeight == weights.embeddingWeight
      lexicalWeight   == weights.lexicalWeight
      score           == FMul(embeddingScore, embeddingWeight) + FMul(lexicalScore, lexicalWeight)
                           + FMul(gatedGraphScore, graphWeight)
  IN [id |-> candidate.id, sourceId |-> candidate.sourceId,
      chunkIndex |-> candidate.chunkIndex,
      score |-> score, rawScore |-> score, embeddingScore |-> embeddingScore,
      lexicalScore |-> lexicalScore, graphScore |-> gatedGraphScore, rrfScore |-> 0]

\* new Map(sorted.map((item, idx) => [item.id, idx + 1])): the rank of every
\* id in the list sorted by `keys` descending; a later entry of the same id
\* overwrites an earlier one
RankMap(scored, keys) ==
  LET order == SortDescOrder(keys)
      ids   == {scored[i].id : i \in 1..Len(scored)}
      last(id) == CHOOSE r \in 1..Len(scored) :
                    /\ scored[order[r]].id = id
                    /\ \A q \in (r + 1)..Len(scored) : scored[order[q]].id # id
  IN [id \in ids |-> last(id)] @@ EmptyMap

\* rank used for an id that is missing from a rank map
RrfDefaultRank == 999

\* graphRankWeight without the test of the confidence threshold
graphRankWeightNoThreshold(graphFeatures, cfg) ==
  clamp(FMul(graphFeatures.confidence, cfg.RAG_GRAPH_RRF_WEIGHT), 0, I2F(1))

\* `const graphRankWeight = confidence < RAG_GRAPH_MIN_CONFIDENCE ? 0 : clamp(...)`
graphRankWeightOf(graphFeatures, cfg) ==
  IF graphFeatures.confidence < cfg.RAG_GRAPH_MIN_CONFIDENCE THEN 0
  ELSE clamp(FMul(graphFeatures.confidence, cfg.RAG_GRAPH_RRF_WEIGHT), 0, I2F(1))

\* `merged`: every scored candidate with its rrfScore and final score
MergeScores(scored, graphFeatures, cfg) ==
  LET n         == Len(scored)
      embRank   == RankMap(scored, [i \in 1..n |-> scored[i].embeddingScore])
      lexRank   == RankMap(scored, [i \in 1..n |-> scored[i].lexicalScore])
      graphRank == RankMap(scored, [i \in 1..n |-> scored[i].graphScore])
      graphRankWeight == graphRankWeightOf(graphFeatures, cfg)
      rrf(item) == reciprocalRankFusion(Get(embRank, item.id, RrfDefaultRank))
                     + reciprocalRankFusion(Get(lexRank, item.id, RrfDefaultRank))
                     + FMul(reciprocalRankFusion(Get(graphRank, item.id, RrfDefaultRank)),
                            graphRankWeight)
      fused(item) == LET rrfScore == rrf(item)
                     IN [item EXCEPT !.rrfScore = rrfScore,
                                     !.score = FMul(item.score, Pct(82)) + FMul(rrfScore, Pct(18))]
  IN Tabulate([i \in 1..n |-> fused(scored[i])])

\* the final sort left out
FinalSortNone(merged) == merged

\* a final sort that is not stable: equal scores come out in reverse order
FinalSortUnstable(merged) ==
  LET n == Len(merged)
      rank(i) == Cardinality({j \in 1..n : \/ merged[j].score > merged[i].score
                                            \/ (merged[j].score = merged[i].score /\ j > i)}) + 1
  IN Tabulate([p \in 1..n |-> merged[CHOOSE i \in 1..n : rank(i) = p]])

\* merged.sort((a, b) => b.score - a.score)
FinalSort(merged) ==
  LET order == SortDescOrder([i \in 1..Len(merged) |-> merged[i].score])
  IN Tabulate([p \in 1..Len(merged) |-> merged[order[p]]])

\* candidates.map(...): every candidate scored
ScoreAll(candidates, queryTokens, queryEmbedding, graphFeatures, cfg) ==
  Tabulate([i \in 1..Len(candidates) |->
              ScoreCandidate(candidates[i], queryTokens, queryEmbedding, graphFeatures, cfg)])

\* merged.sort(...).slice(0, topK); `merged` is kept beside the result
Ranked(merged, topK) == [merged |-> merged, result |-> Slice(FinalSort(merged), 0, topK)]

\* everything of retrieveRelevantChunks after the embedding call
RankCandidates(candidates, queryText, queryEmbedding, graphFeatures, topK, cfg) ==
  Ranked(MergeScores(ScoreAll(candidates, tokenizeForSearch(queryText), queryEmbedding,
                              graphFeatures, cfg),
                     graphFeatures, cfg),
         topK)

\* ------------------------------------------------------------------------
\* The data of the model: graph documents, passage stores, configurations,
\* queries
\* ------------------------------------------------------------------------
Node(id, label, aliases) == [isNull |-> FALSE, id |-> id, label |-> label, aliases |-> aliases]

\* a null element of the nodes array
NullNode == [isNull |-> TRUE, id |-> "", label |-> <<>>, aliases |-> <<>>]

Edge(from, to, hasWeight, weight, undirected) ==
  [from |-> from, to |-> to, hasWeight |-> hasWeight, weight |-> weight,
   undirected |-> undirected]

\* three concepts; an entry without id, an edge to an unknown node, a weight
\* above the clamp range
DocA ==
  [nodes |-> << Node("n1", <<"fa", "li">>, << <<"a", "b">> >>),
                Node("n2", <<"qi", "xu">>, <<>>),
                Node("", <<"xi">>, <<>>),
                Node("n3", <<"tiao", "li">>, <<>>) >>,
   edges |-> << Edge("n1", "n2", FALSE, 0, TRUE),
                Edge("n2", "n3", TRUE, I2F(20), FALSE),
                Edge("n3", "zz", TRUE, I2F(1), FALSE) >>]

\* another graph over other labels; a weight below the clamp range
DocB ==
  [nodes |-> << Node("n1", <<"a", "b">>, <<>>),
                Node("n4", <<"c", "1">>, << <<"fa", "li">> >>) >>,
   edges |-> << Edge("n1", "n4", TRUE, Mil(1), FALSE) >>]

\* has both arrays, but buildRuntime throws on it
DocNull == [nodes |-> << Node("n1", <<"fa", "li">>, <<>>), NullNode >>, edges |-> <<>>]

EmptyDoc == [nodes |-> <<>>, edges |-> <<>>]

\* what fs.readFile + JSON.parse make of the file at a path
FileOk(doc) == [kind |-> "doc", doc |-> doc]

FileUnreadable == [kind |-> "unreadable", doc |-> EmptyDoc]

FileBadJson == [kind |-> "badjson", doc |-> EmptyDoc]

FileNoArrays == [kind |-> "noarrays", doc |-> EmptyDoc]

FileContents ==
  {FileOk(DocA), FileOk(DocB), FileOk(DocNull), FileUnreadable, FileBadJson, FileNoArrays}

\* resolved graph paths
Paths == {"P", "Q"}

Passage(id, sourceId, chunkIndex, text, keywords, embedding, updatedAt) ==
  [id |-> id, sourceId |-> sourceId, chunkIndex |-> chunkIndex, text |-> text,
   sourceTitle |-> <<"a", "b">>, sectionTitle |-> <<>>, keywords |-> keywords,
   embedding |-> embedding, updatedAt |-> updatedAt]

TextFaLi == <<"qi", "xu", "SP", "fa", "li">>

TextAb == <<"A", "b", "SP", "c", "1">>

\* five passages: two with the same text, keywords and embedding; one without
\* stored keywords; embeddings at several angles to the query embeddings
StoreSmall ==
  << Passage(1, "s1", 0, TextFaLi, tokenizeForSearch(TextFaLi), <<1, 0>>, 5),
     Passage(2, "s1", 1, TextAb, <<>>, <<0, 1>>, 4),
     Passage(3, "s2", 0, TextFaLi, tokenizeForSearch(TextFaLi), <<1, 0>>, 3),
     Passage(4, "s2", 1, <<"tiao", "li", ".">>, << <<"tiao", "li">> >>, <<-3, -4>>, 7),
     Passage(5, "s3", 0, <<"xi">>, <<>>, <<>>, 6) >>

\* number of passages of the large store: one more than the top-K maximum
BigStoreSize == 21

\* passages that differ in id only
StoreBig ==
  [i \in 1..BigStoreSize |->
     Passage(i, "big", i - 1, TextFaLi, tokenizeForSearch(TextFaLi), <<1, 0>>, i)]

\* two passages whose final scores are exactly equal for the query "Ab" when
\* the graph channel is off: the first leads on the embedding, the second on
\* the keywords
StoreTie ==
  << Passage(1, "t1", 0, <<"a", "b", "SP", "c", "1", "SP", "b", "c">>,
             << <<"a", "b">>, <<"c", "1">>, <<"b", "c">> >>, <<8, 9>>, 2),
     Passage(2, "t1", 1, <<"A", "b">>, << <<"a", "b">> >>, <<9, 7>>, 1) >>

\* the env record: the configuration values the retrieval core reads
EnvDefault ==
  [RAG_TOP_K |-> 6, RAG_CANDIDATE_LIMIT |-> 300,
   RAG_GRAPH_PPR_ALPHA |-> Pct(85), RAG_GRAPH_TOP_NODES |-> 12,
   RAG_GRAPH_MIN_CONFIDENCE |-> Pct(35), RAG_GRAPH_MAX_WEIGHT |-> Pct(16),
   RAG_GRAPH_RRF_WEIGHT |-> Pct(60), RAG_GRAPH_PATH |-> "P"]

\* a small candidate limit, the graph channel always on
EnvTight ==
  [RAG_TOP_K |-> 20, RAG_CANDIDATE_LIMIT |-> 2,
   RAG_GRAPH_PPR_ALPHA |-> Pct(50), RAG_GRAPH_TOP_NODES |-> 2,
   RAG_GRAPH_MIN_CONFIDENCE |-> 0, RAG_GRAPH_MAX_WEIGHT |-> Pct(30),
   RAG_GRAPH_RRF_WEIGHT |-> I2F(2), RAG_GRAPH_PATH |-> "P"]

\* the (configuration, store) pairs the model starts from
Deployments ==
  { <<EnvDefault, StoreSmall>>, <<EnvDefault, StoreBig>>, <<EnvDefault, StoreTie>>,
    <<EnvTight, StoreSmall>>, <<EnvTight, <<>> >> }

QueryFaLi == <<"fa", "li", "zen", "me", "tiao", "li">>

\* the absent context and a context that names another concept
NoContext == <<>>

ContextQiXu == <<"qi", "xu">>

BlankQueries == {<<>>, <<"SP", "IDSP", "LF">>}

\* the embedding the provider computes for a text
\* (for one text the response holds no vector: `vectors[0] ?? []` is [])
EmbeddingOf(text) ==
  IF text = QueryFaLi THEN <<1, 0>>
  ELSE IF text = <<"A", "b">> THEN <<0, 1>>
  ELSE IF text = <<"xi", "xi">> THEN <<>>
  ELSE <<3, 4>>

\* the largest topK the request schemas and the configuration schema accept
TopKMax == 20

\* values of topK a direct caller passes: small ones and one beyond TopKMax
TopKs == {1, 3, TopKMax + 1}

\* the (query, topK, graphContext) triples of direct calls
CallInputs ==
  {<<q, k, NoContext>> : q \in BlankQueries, k \in TopKs}
    \cup {<<QueryFaLi, k, NoContext>> : k \in TopKs}
    \cup { <<QueryFaLi, 3, ContextQiXu>>,
           << <<"SP", "A", "b">>, 3, NoContext >>,
           << <<".">>, 3, NoContext >>,
           << <<"c", "1", "SP", "xi", "xi">>, 1, NoContext >> }

\* request bodies of POST /chat: message and optional topK (<<>> when absent)
ChatMessages == {<<"SP", "A", "b">>, <<"SP", "IDSP", "LF">>}

ChatTopKs == {<<>>, <<TopKMax>>, <<TopKMax + 1>>}

\* ------------------------------------------------------------------------
\* State
\* ------------------------------------------------------------------------
VARIABLES
  env,             \* the parsed configuration
  store,           \* the KnowledgeChunk collection, in natural order
  graphFile,       \* resolved path -> what reading and parsing the file gives
  graphCache,      \* <<>> for null, <<runtime>> otherwise
  graphPathCache,  \* "" or the path of the last document read
  req,             \* request id -> the frame of its retrieveRelevantChunks call
  prev,            \* the last call that ended, where calls are recorded
  pure             \* a function applied on its own: its arguments and, once
                   \* applied, its result

vars == <<env, store, graphFile, graphCache, graphPathCache, req, prev, pure>>

\* request slots
Reqs == {1, 2}

\* the features field of a frame that has not computed them yet
NoFeatures == FeaturesRecord(EmptyMap, 0, 0, 0, 0, 0, EmptyMap)

\* a frame: the locals of one call, its position (pc: "done" is the
\* retrieval returned, "answered" the chat completion settled), and history fields
\* that record what happened to it (via, storeFailed, embedFailed,
\* graphFileKind, cacheHit, dirty, the three call counters; for a chat
\* request, embedStatus, the status of the error the embedding call rejected
\* with, and completion, <<>> until createChatCompletion settles)
IdleReq ==
  [pc |-> "idle", via |-> "", query |-> <<>>, topK |-> 0, ctx |-> <<>>, queryText |-> <<>>,
   primary |-> <<>>, candidates |-> <<>>, graphPath |-> "", graph |-> <<>>,
   features |-> NoFeatures, queryEmbedding |-> <<>>, embedFailed |-> FALSE,
   storeFailed |-> FALSE, graphFileKind |-> "", cacheHit |-> FALSE, dirty |-> FALSE,
   merged |-> <<>>, result |-> <<>>, error |-> NONE,
   storeQueries |-> 0, graphCalls |-> 0, embedCalls |-> 0,
   embedStatus |-> 0, completion |-> <<>>]

NoPrev ==
  [recording |-> FALSE, valid |-> FALSE, query |-> <<>>, topK |-> 0, ctx |-> <<>>, dirty |-> FALSE,
   error |-> NONE, result |-> <<>>]

\* the process has just started: nothing cached, no call in flight
InitState(deployments, recording) ==
  /\ \E d \in deployments : env = d[1] /\ store = d[2]
  /\ graphFile \in [Paths -> FileContents]
  /\ graphFile["Q"] = FileOk(DocB)
  /\ graphCache = <<>>
  /\ graphPathCache = ""
  /\ req = [r \in Reqs |-> IdleReq]
  /\ prev = [NoPrev EXCEPT !.recording = recording]
  /\ pure = [fn |-> "none"]

Init == InitState(Deployments, FALSE)

\* ------------------------------------------------------------------------
\* retrieveRelevantChunks, one action per stretch between two awaits
\* ------------------------------------------------------------------------
\* `const queryText = query.trim()`, without the trim
queryTextOfNoTrim(query) == query

\* `const queryText = query.trim()`
queryTextOf(query) == Trim(query)

\* a find whose rejection is swallowed into an empty list
findResultSwallowed(ok, rows) == [threw |-> FALSE, rows |-> IF ok THEN rows ELSE <<>>]

\* `await KnowledgeChunk.find(...)` in loadCandidates: the rows, or the
\* rejection, which nothing between the find and the caller catches
findResult(ok, rows) == [threw |-> ~ok, rows |-> IF ok THEN rows ELSE <<>>]

\* getGraph without its try/catch
getGraphResultNoCatch(file) ==
  IF file.kind = "doc" /\ ~BuildRuntimeThrows(file.doc)
  THEN [threw |-> FALSE, graph |-> <<buildRuntime(file.doc)>>]
  ELSE [threw |-> TRUE, graph |-> <<>>]

\* getGraph handing out a runtime that is not complete: the nodes are in,
\* the edges are not
getGraphResultPartial(file) ==
  IF file.kind = "doc" /\ ~BuildRuntimeThrows(file.doc)
  THEN [threw |-> FALSE, graph |-> <<buildRuntime([file.doc EXCEPT !.edges = <<>>])>>]
  ELSE [threw |-> FALSE, graph |-> <<>>]

\* getGraph on a cache miss, given what is at the path: the runtime, or null
\* when readGraphDoc or buildRuntime throws
getGraphResult(file) ==
  IF file.kind = "doc" /\ ~BuildRuntimeThrows(file.doc)
  THEN [threw |-> FALSE, graph |-> <<buildRuntime(file.doc)>>]
  ELSE [threw |-> FALSE, graph |-> <<>>]

\* the embedding call without its try/catch
queryEmbeddingResultNoCatch(ok, queryText) ==
  [threw |-> ~ok, queryEmbedding |-> IF ok THEN EmbeddingOf(queryText) ELSE <<>>]

\* `let queryEmbedding = []; try { ... = vectors[0] ?? [] } catch { warn }`
queryEmbeddingResult(ok, queryText) ==
  [threw |-> FALSE, queryEmbedding |-> IF ok THEN EmbeddingOf(queryText) ELSE <<>>]

\* getGraph without the test of the cache: the file is read on every call
GetGraphStartNoCache(rq, candidates) ==
  IF Len(candidates) = 0
  THEN [rq EXCEPT !.pc = "done", !.result = <<>>]
  ELSE [rq EXCEPT !.pc = "readGraph", !.candidates = candidates,
                  !.graphCalls = @ + 1, !.graphPath = env.RAG_GRAPH_PATH]

\* getGraph up to its first await, entered from computeGraphQueryFeatures
\* once the candidates are known: a cache hit returns the cached runtime,
\* a miss starts readGraphDoc
GetGraphStart(rq, candidates) ==
  IF Len(candidates) = 0
  THEN [rq EXCEPT !.pc = "done", !.result = <<>>]
  ELSE LET graphPath == env.RAG_GRAPH_PATH
       IN IF graphCache # <<>> /\ graphPath = graphPathCache
          THEN [rq EXCEPT !.pc = "embed", !.candidates = candidates,
                          !.graphCalls = @ + 1, !.cacheHit = TRUE,
                          !.graphFileKind = graphFile[graphPath].kind,
                          !.graph = graphCache,
                          !.features = GraphFeaturesOf(graphCache, rq.queryText, rq.ctx, env),
                          !.embedCalls = @ + 1]
          ELSE [rq EXCEPT !.pc = "readGraph", !.candidates = candidates,
                          !.graphCalls = @ + 1, !.graphPath = graphPath]

\* retrieveRelevantChunks up to the first await of loadCandidates
retrieveStart(via, query, topK, ctx) ==
  LET queryText == queryTextOf(query)
      rq == [IdleReq EXCEPT !.via = via, !.query = query, !.topK = topK, !.ctx = ctx,
                            !.queryText = queryText]
  IN IF queryText = <<>>
     THEN [rq EXCEPT !.pc = "done", !.result = <<>>]
     ELSE IF Len(CandidateTokens(queryText)) > 0
          THEN [rq EXCEPT !.pc = "primary", !.storeQueries = @ + 1]
          ELSE [rq EXCEPT !.pc = "fallback", !.storeQueries = @ + 1]

\* a direct call of retrieveRelevantChunks(query, topK, {graphContext: ctx})
Call(r, query, topK, ctx) ==
  /\ req[r].pc = "idle"
  /\ req' = [req EXCEPT ![r] = retrieveStart("direct", query, topK, ctx)]
  /\ UNCHANGED <<pure, env, store, graphFile, graphCache, graphPathCache, prev>>

\* chatSchema without the .max(20) on topK
chatSchemaNoMax(message, topKOpt) ==
  LET trimmed == Trim(message)
  IN [success |-> /\ Len(trimmed) >= 1
                  /\ Len(trimmed) <= 4000
                  /\ (topKOpt # <<>> => topKOpt[1] > 0),
      message |-> trimmed, topK |-> topKOpt]

\* chatSchema.safeParse(req.body)
chatSchema(message, topKOpt) ==
  LET trimmed == Trim(message)
  IN [success |-> /\ Len(trimmed) >= 1
                  /\ Len(trimmed) <= 4000
                  /\ (topKOpt # <<>> => topKOpt[1] > 0 /\ topKOpt[1] <= TopKMax),
      message |-> trimmed, topK |-> topKOpt]

\* POST /chat: ragChat up to the retrieval's first await; answerWithRag and
\* answerWithRagPersonalized pass the trimmed question on, with no context
RagChat(r, message, topKOpt) ==
  /\ req[r].pc = "idle"
  /\ LET parsed == chatSchema(message, topKOpt)
         topK   == IF parsed.topK # <<>> THEN parsed.topK[1] ELSE env.RAG_TOP_K
     IN req' = [req EXCEPT ![r] =
                  IF ~parsed.success
                  THEN [IdleReq EXCEPT !.via = "chat", !.pc = "rejected"]
                  ELSE retrieveStart("chat", Trim(parsed.message), topK, NoContext)]
  /\ UNCHANGED <<pure, env, store, graphFile, graphCache, graphPathCache, prev>>

\* the primary find resolves (ok) or rejects
PrimaryDone(r, ok) ==
  /\ req[r].pc = "primary"
  /\ LET rq    == [req[r] EXCEPT !.storeFailed = ~ok]
         found == findResult(ok, PrimaryQuery(store, rq.queryText, env.RAG_CANDIDATE_LIMIT))
         primary == found.rows
     IN req' = [req EXCEPT ![r] =
                  IF found.threw THEN [rq EXCEPT !.pc = "failed", !.error = "store"]
                  ELSE IF Len(primary) >= env.RAG_CANDIDATE_LIMIT
                       THEN GetGraphStart([rq EXCEPT !.primary = primary], primary)
                       ELSE [rq EXCEPT !.pc = "fallback", !.primary = primary,
                                       !.storeQueries = @ + 1]]
  /\ UNCHANGED <<pure, env, store, graphFile, graphCache, graphPathCache, prev>>

\* the fallback find resolves (ok) or rejects
FallbackDone(r, ok) ==
  /\ req[r].pc = "fallback"
  /\ LET rq    == [req[r] EXCEPT !.storeFailed = ~ok]
         found == findResult(ok, FallbackQuery(store, rq.primary, env.RAG_CANDIDATE_LIMIT))
     IN req' = [req EXCEPT ![r] =
                  IF found.threw THEN [rq EXCEPT !.pc = "failed", !.error = "store"]
                  ELSE GetGraphStart(rq, rq.primary \o found.rows)]
  /\ UNCHANGED <<pure, env, store, graphFile, graphCache, graphPathCache, prev>>

\* fs.readFile of readGraphDoc settles; the rest of readGraphDoc and of
\* getGraph runs, then computeGraphQueryFeatures, then createEmbeddings is called
ReadGraphDone(r) ==
  /\ req[r].pc = "readGraph"
  /\ LET file   == graphFile[req[r].graphPath]
         rq     == [req[r] EXCEPT !.graphFileKind = file.kind]
         parsed == file.kind = "doc"
         got    == getGraphResult(file)
     IN /\ graphPathCache' = IF parsed THEN rq.graphPath ELSE graphPathCache
        /\ graphCache' = IF got.graph # <<>> THEN got.graph ELSE graphCache
        /\ req' = [req EXCEPT ![r] =
                     IF got.threw THEN [rq EXCEPT !.pc = "failed", !.error = "graph"]
                     ELSE [rq EXCEPT !.pc = "embed", !.graph = got.graph,
                                     !.features = GraphFeaturesOf(got.graph, rq.queryText,
                                                                  rq.ctx, env),
                                     !.embedCalls = @ + 1]]
  /\ UNCHANGED <<pure, env, store, graphFile, prev>>

\* the frame once the ranking is computed
WithRanking(rq, ranked) ==
  [rq EXCEPT !.pc = "done", !.merged = ranked.merged, !.result = ranked.result]

\* retrieveRelevantChunks from the end of the embedding call to its return
AfterEmbedding(rq, got) ==
  IF got.threw THEN [rq EXCEPT !.pc = "failed", !.error = "embedding"]
  ELSE WithRanking([rq EXCEPT !.queryEmbedding = got.queryEmbedding],
                   RankCandidates(rq.candidates, rq.queryText, got.queryEmbedding,
                                  rq.features, rq.topK, env))

\* createEmbeddings resolves (ok) or rejects; scoring, fusion and the final
\* sort follow without another await
EmbedDone(r, ok) ==
  /\ req[r].pc = "embed"
  /\ req' = [req EXCEPT ![r] =
               AfterEmbedding([req[r] EXCEPT !.embedFailed = ~ok],
                              queryEmbeddingResult(ok, req[r].queryText))]
  /\ UNCHANGED <<pure, env, store, graphFile, graphCache, graphPathCache, prev>>

\* the caller takes the result (or the error) and the frame is gone; where
\* calls are recorded, the call is remembered as the last one that ended
Return(r) ==
  /\ req[r].pc \in {"done", "failed", "rejected", "answered"}
  /\ prev' = IF prev.recording /\ req[r].pc # "rejected"
             THEN [prev EXCEPT !.valid = TRUE, !.query = req[r].query,
                               !.topK = req[r].topK, !.ctx = req[r].ctx,
                               !.dirty = req[r].dirty, !.error = req[r].error,
                               !.result = req[r].result]
             ELSE prev
  /\ req' = [req EXCEPT ![r] = IdleReq]
  /\ UNCHANGED <<pure, env, store, graphFile, graphCache, graphPathCache>>

\* somebody edits, replaces or removes the graph file at the configured
\* path; where calls are recorded, the calls in flight and the last call
\* recorded note the change
EditGraphFile(content) ==
  /\ content # graphFile[env.RAG_GRAPH_PATH]
  /\ graphFile' = [graphFile EXCEPT ![env.RAG_GRAPH_PATH] = content]
  /\ req' = [r \in Reqs |-> IF prev.recording /\ req[r].pc # "idle"
                            THEN [req[r] EXCEPT !.dirty = TRUE]
                            ELSE req[r]]
  /\ prev' = IF prev.valid THEN [prev EXCEPT !.dirty = TRUE] ELSE prev
  /\ UNCHANGED <<pure, env, store, graphCache, graphPathCache>>

Next ==
  \/ \E input \in CallInputs : Call(1, input[1], input[2], input[3])
  \/ \E message \in ChatMessages, topKOpt \in ChatTopKs : RagChat(1, message, topKOpt)
  \/ \E ok \in BOOLEAN : PrimaryDone(1, ok)
  \/ \E ok \in BOOLEAN : FallbackDone(1, ok)
  \/ ReadGraphDone(1)
  \/ \E ok \in BOOLEAN : EmbedDone(1, ok)
  \/ Return(1)
  \/ \E content \in FileContents : EditGraphFile(content)

Spec == Init /\ [][Next]_vars

\* ------------------------------------------------------------------------
\* Pairs of calls: every call that ends is recorded, so that the next call
\* can be compared with it
\* ------------------------------------------------------------------------
NextPair ==
  \/ \E input \in {<<QueryFaLi, NoContext>>, <<QueryFaLi, ContextQiXu>>, << <<".">>, NoContext >>} :
        Call(1, input[1], 3, input[2])
  \/ \E ok \in BOOLEAN : PrimaryDone(1, ok)
  \/ \E ok \in BOOLEAN : FallbackDone(1, ok)
  \/ ReadGraphDone(1)
  \/ \E ok \in BOOLEAN : EmbedDone(1, ok)
  \/ Return(1)
  \/ \E content \in FileContents : EditGraphFile(content)

SpecPair == InitState({<<EnvTight, StoreSmall>>}, TRUE) /\ [][NextPair]_vars

\* ------------------------------------------------------------------------
\* Properties of retrieveRelevantChunks
\* ------------------------------------------------------------------------

\* C1: a call of retrieveRelevantChunks whose query is empty or consists of
\* whitespace only has already returned the empty list, whatever topK is, without an error and without a
\* passage-store query, a graph load or an embedding call.
C1_BlankQueryReturnsEmpty ==
  \A r \in Reqs :
    (/\ req[r].pc \notin {"idle", "rejected"}
     /\ \A i \in 1..Len(req[r].query) : req[r].query[i] \in WhiteChars)
    => /\ req[r].pc = "done"
       /\ req[r].result = <<>>
       /\ req[r].error = NONE
       /\ req[r].storeQueries = 0
       /\ req[r].graphCalls = 0
       /\ req[r].embedCalls = 0

\* a whitespace-only query of three characters, called with topK beyond 20,
\* has returned
C1_Witness ==
  \E r \in Reqs :
    /\ req[r].pc = "done"
    /\ Len(req[r].query) = 3
    /\ \A i \in 1..Len(req[r].query) : req[r].query[i] \in WhiteChars
    /\ req[r].topK = TopKMax + 1

\* C2: when the embedding call throws, the call of retrieveRelevantChunks
\* does not fail: it returns a non-empty list ordered by score, and every
\* returned passage has embeddingScore 0.
C2_EmbeddingFailureDegrades ==
  \A r \in Reqs :
    req[r].embedFailed
    => /\ req[r].pc = "done"
       /\ req[r].error = NONE
       /\ req[r].result # <<>>
       /\ \A i \in 1..Len(req[r].result) : req[r].result[i].embeddingScore = 0
       /\ \A i, j \in 1..Len(req[r].result) :
            i < j => req[r].result[i].score >= req[r].result[j].score

\* the embedding call threw and two or more passages came back, the first
\* of them with a positive lexical score
C2_Witness ==
  \E r \in Reqs :
    /\ req[r].embedFailed
    /\ req[r].pc = "done"
    /\ Len(req[r].result) >= 2
    /\ req[r].result[1].lexicalScore > 0

\* C3: when the primary or the fallback passage-store query fails, the call
\* fails with that error; no result, empty or partial, is produced.
C3_StoreFailurePropagates ==
  \A r \in Reqs :
    req[r].storeFailed
    => /\ req[r].pc = "failed"
       /\ req[r].error = "store"
       /\ req[r].result = <<>>
       /\ req[r].merged = <<>>

\* the fallback query failed after the primary query had found passages
C3_Witness ==
  \E r \in Reqs :
    /\ req[r].storeFailed
    /\ req[r].pc = "failed"
    /\ Len(req[r].primary) > 0

\* C4 as stated: whenever the graph file is unreadable, not valid JSON or
\* without its arrays when getGraph is called, the features have confidence 0
\* and an empty token-boost map, nothing is thrown, and the ranking returned
\* has graphScore 0 throughout.
C4_BrokenFileDisablesGraph ==
  \A r \in Reqs :
    req[r].graphFileKind \in {"unreadable", "badjson", "noarrays"}
    => /\ req[r].pc \in {"embed", "done"}
       /\ req[r].features.confidence = 0
       /\ req[r].features.tokenBoost = EmptyMap
       /\ req[r].pc = "done"
            => /\ req[r].result # <<>>
               /\ \A i \in 1..Len(req[r].merged) : req[r].merged[i].graphScore = 0

\* C4, amended: the same, for a call that finds no runtime cached for the
\* configured path, so that getGraph reads the file.
C4_BrokenFileDisablesGraphOnMiss ==
  \A r \in Reqs :
    (/\ req[r].graphFileKind \in {"unreadable", "badjson", "noarrays"}
     /\ ~req[r].cacheHit)
    => /\ req[r].pc \in {"embed", "done"}
       /\ req[r].error = NONE
       /\ req[r].features.confidence = 0
       /\ req[r].features.tokenBoost = EmptyMap
       /\ req[r].pc = "done"
            => /\ req[r].result # <<>>
               /\ \A i \in 1..Len(req[r].merged) : req[r].merged[i].graphScore = 0

\* a call that read a broken graph file has returned three passages, one of
\* them with a positive score
C4_Witness ==
  \E r \in Reqs :
    /\ req[r].graphFileKind \in {"unreadable", "badjson", "noarrays"}
    /\ ~req[r].cacheHit
    /\ req[r].pc = "done"
    /\ Len(req[r].result) = 3
    /\ req[r].result[1].score > 0

\* C5: a call that returns gives the same list as the last call that
\* returned, when both had the same query, topK and context and the graph
\* file was not changed from the start of the earlier call on (the passage
\* store never changes).
C5_SameCallSameResult ==
  \A r \in Reqs :
    (/\ req[r].pc = "done"
     /\ prev.valid
     /\ prev.error = NONE
     /\ prev.query = req[r].query
     /\ prev.topK = req[r].topK
     /\ prev.ctx = req[r].ctx
     /\ ~prev.dirty
     /\ ~req[r].dirty)
    => req[r].result = prev.result

C7_ResultLength ==
  \A r \in Reqs :
    (req[r].pc = "done" /\ req[r].topK >= 1)
    => LET result     == req[r].result
           candidates == req[r].candidates
       IN /\ Len(result) = Min2(req[r].topK, Len(candidates))
          /\ \A i, j \in 1..Len(result) : i # j => result[i].id # result[j].id
          /\ \A i \in 1..Len(result) :
               \E c \in 1..Len(candidates) : candidates[c].id = result[i].id

\* fewer candidates than topK, and all of them returned
C7_Witness ==
  \E r \in Reqs :
    /\ req[r].pc = "done"
    /\ Len(req[r].candidates) > 0
    /\ Len(req[r].candidates) < req[r].topK
    /\ Len(req[r].result) = Len(req[r].candidates)

\* C8 as stated: retrieveRelevantChunks never returns more than 20 passages.
C8_AtMostTwenty ==
  \A r \in Reqs : Len(req[r].result) <= TopKMax

\* C8, amended: retrieveRelevantChunks returns at most topK passages; a
\* retrieval started by POST /chat has topK <= 20 and so at most 20 passages.
C8_AtMostTopK ==
  \A r \in Reqs :
    /\ Len(req[r].result) <= req[r].topK
    /\ (req[r].via = "chat" /\ req[r].pc \notin {"idle", "rejected"})
       => /\ req[r].topK <= TopKMax
          /\ Len(req[r].result) <= TopKMax

\* a retrieval started by POST /chat returned 20 of more than 20 candidates
C8_Witness ==
  \E r \in Reqs :
    /\ req[r].via = "chat"
    /\ req[r].pc = "done"
    /\ Len(req[r].result) = TopKMax
    /\ Len(req[r].candidates) > TopKMax

\* C9: two returned passages with equal final scores are in the order of
\* the candidate list.
C9_TiesKeepCandidateOrder ==
  \A r \in Reqs :
    req[r].pc = "done"
    => LET result     == req[r].result
           candidates == req[r].candidates
           pos(id)    == CHOOSE c \in 1..Len(candidates) : candidates[c].id = id
       IN \A i, j \in 1..Len(result) :
            (i < j /\ result[i].score = result[j].score)
            => pos(result[i].id) < pos(result[j].id)

\* two passages with equal final scores were returned; they differ in
\* lexical and in embedding score
C9_Witness ==
  \E r \in Reqs :
    /\ req[r].pc = "done"
    /\ Len(req[r].result) = 2
    /\ req[r].result[1].score = req[r].result[2].score
    /\ req[r].result[1].lexicalScore < req[r].result[2].lexicalScore
    /\ req[r].result[1].embeddingScore > req[r].result[2].embeddingScore

\* C10: after a failed embedding call, two candidates with equal
\* lexicalScore and equal graphScore have equal final scores, wherever they
\* are in the candidate list.
C10_EqualChannelsEqualScore ==
  \A r \in Reqs :
    (req[r].pc = "done" /\ req[r].embedFailed)
    => \A i, j \in 1..Len(req[r].merged) :
         (/\ req[r].merged[i].lexicalScore = req[r].merged[j].lexicalScore
          /\ req[r].merged[i].graphScore = req[r].merged[j].graphScore)
         => req[r].merged[i].score = req[r].merged[j].score

\* ------------------------------------------------------------------------
\* A store of one passage
\* ------------------------------------------------------------------------
\* one passage each: keywords as ingestion stores them for a short text; no
\* stored keywords; keywords that stop before the token the query shares
\* with the text (ingestion keeps the first 120 tokens); no embedding
SinglePassages ==
  { Passage(1, "s1", 0, TextFaLi, tokenizeForSearch(TextFaLi), <<1, 0>>, 1),
    Passage(2, "s2", 0, TextAb, <<>>, <<3, 4>>, 1),
    Passage(3, "s3", 0, TextFaLi, << <<"qi", "xu">> >>, <<1, 0>>, 1),
    Passage(4, "s4", 0, <<"xi", "xi">>, <<>>, <<>>, 1) }

NextSingle ==
  \/ \E query \in {QueryFaLi, <<"c", "1">>, <<"xi", "xi">>} : Call(1, query, 1, NoContext)
  \/ \E ok \in BOOLEAN : PrimaryDone(1, ok)
  \/ \E ok \in BOOLEAN : FallbackDone(1, ok)
  \/ ReadGraphDone(1)
  \/ \E ok \in BOOLEAN : EmbedDone(1, ok)
  \/ Return(1)

SpecSingle ==
  InitState({<<EnvDefault, <<p>> >> : p \in SinglePassages}, FALSE) /\ [][NextSingle]_vars

\* the call has returned from a store of one passage, with topK = 1, no
\* context and an embedding from the provider that equals the passage's
SingleCallDone(r) ==
  /\ req[r].pc = "done"
  /\ Len(store) = 1
  /\ req[r].topK = 1
  /\ req[r].ctx = NoContext
  /\ ~req[r].embedFailed
  /\ store[1].embedding = req[r].queryEmbedding

\* the result is the passage alone, with embeddingScore 1 and a positive
\* lexicalScore
SinglePassageReturned(r) ==
  /\ Len(req[r].result) = 1
  /\ req[r].result[1].id = store[1].id
  /\ req[r].result[1].sourceId = store[1].sourceId
  /\ req[r].result[1].embeddingScore = I2F(1)
  /\ req[r].result[1].lexicalScore > 0

\* C11 as stated: when the text of the single passage shares a search token
\* with the query and its embedding equals the query's, the call with
\* topK = 1 and no context returns that passage alone, with embeddingScore 1
\* and lexicalScore > 0.
C11_SinglePassageFound ==
  \A r \in Reqs :
    (/\ SingleCallDone(r)
     /\ SeqToSet(tokenizeForSearch(store[1].text))
           \cap SeqToSet(tokenizeForSearch(req[r].queryText)) # {})
    => SinglePassageReturned(r)

\* C11, amended: the same, when the tokens the passage is scored on (its
\* stored keywords if it has any, else the tokens of its text) share a token
\* with the query, and the embedding is a vector that is not empty and not
\* zero.
C11_SinglePassageFoundByItsTokens ==
  \A r \in Reqs :
    (/\ SingleCallDone(r)
     /\ SeqToSet(IF Len(store[1].keywords) > 0 THEN store[1].keywords
                 ELSE tokenizeForSearch(store[1].text))
           \cap SeqToSet(tokenizeForSearch(req[r].queryText)) # {}
     /\ \E i \in 1..Len(store[1].embedding) : store[1].embedding[i] # 0)
    => SinglePassageReturned(r)

\* the passage without stored keywords, whose embedding is not a unit
\* vector, was returned with embeddingScore 1 and lexicalScore > 0
C11_Witness ==
  \E r \in Reqs :
    /\ SingleCallDone(r)
    /\ store[1].keywords = <<>>
    /\ store[1].embedding = <<3, 4>>
    /\ SinglePassageReturned(r)

\* ------------------------------------------------------------------------
\* The graph cache
\* ------------------------------------------------------------------------
\* a runtime is cached for the resolved path of the configuration
GraphLoaded == graphCache # <<>> /\ graphPathCache = env.RAG_GRAPH_PATH

NextConc ==
  \/ \E r \in Reqs, query \in {QueryFaLi, <<".">>} : Call(r, query, 3, NoContext)
  \/ \E r \in Reqs : PrimaryDone(r, TRUE)
  \/ \E r \in Reqs : FallbackDone(r, TRUE)
  \/ \E r \in Reqs : ReadGraphDone(r)
  \/ \E r \in Reqs : EmbedDone(r, TRUE)
  \/ \E r \in Reqs : Return(r)
  \/ \E content \in FileContents : EditGraphFile(content)

SpecConc == InitState({<<EnvTight, StoreSmall>>}, FALSE) /\ [][NextConc]_vars

\* the runtimes of the documents that buildRuntime accepts
CompleteRuntimes ==
  {<<buildRuntime(file.doc)>> :
     file \in {f \in FileContents : f.kind = "doc" /\ ~BuildRuntimeThrows(f.doc)}}

\* C13: with overlapping getGraph calls on an empty cache, a call whose
\* load ends on a document that buildRuntime accepts receives the complete
\* runtime of that document, and that runtime is then the cached one for
\* the resolved path (the last writer wins); a load that fails leaves the
\* cache as it is; nothing else changes the cache; the cache never holds
\* anything but a complete runtime.
C13_ConcurrentLoadsKeepCache ==
  [][/\ \A r \in Reqs :
          (req[r].pc = "readGraph" /\ req'[r].pc # "readGraph")
          => LET file == graphFile[req[r].graphPath]
             IN IF file.kind = "doc" /\ ~BuildRuntimeThrows(file.doc)
                THEN /\ req'[r].graph = <<buildRuntime(file.doc)>>
                     /\ req'[r].pc = "embed"
                     /\ graphCache' = req'[r].graph
                     /\ graphPathCache' = req[r].graphPath
                ELSE /\ req'[r].graph = <<>>
                     /\ req'[r].pc = "embed"
                     /\ graphCache' = graphCache
     /\ (\A r \in Reqs : req[r].pc = "readGraph" => req'[r].pc = "readGraph")
          => (graphCache' = graphCache /\ graphPathCache' = graphPathCache)
     /\ \A r \in Reqs : req'[r].graph # <<>> => req'[r].graph \in CompleteRuntimes
     /\ graphCache' # <<>>
          => (graphCache' \in CompleteRuntimes /\ graphPathCache' = env.RAG_GRAPH_PATH)]_vars

\* both requests loaded the graph themselves, from different documents;
\* all loads have finished and the cache holds the runtime of one of them
C13_Witness ==
  /\ \A r \in Reqs : /\ req[r].pc \in {"embed", "done"}
                      /\ ~req[r].cacheHit
                      /\ req[r].graph # <<>>
  /\ req[1].graph # req[2].graph
  /\ graphCache \in {req[1].graph, req[2].graph}
  /\ graphCache \in CompleteRuntimes

\* ------------------------------------------------------------------------
\* Functions applied on their own, to arguments drawn from bounded sets
\* ------------------------------------------------------------------------
\* longest text that is split
MaxTextLen == 5

\* most edges of a graph document that is built
MaxEdges == 2

\* values of RAG_GRAPH_MAX_WEIGHT: the setting is a number without a stated
\* range; two values lie below the minimum weights 0.04 and 0.05, one
\* between them, two above
MaxWeights == {Pct(2), Mil(45), Pct(16), Pct(30)}

\* the arguments: texts over two letters and the blank with every chunk
\* size up to 3 and every smaller overlap; the runtimes of three documents
\* with every non-empty seed map over two seed values and three restart
\* probabilities; confidences, thresholds and maximum weights on both
\* sides of each other; query complexities with base restart
\* probabilities from 0.5 to 0.99 and base top-node counts from 1 to 40;
\* texts of Han characters, white space, punctuation and a letter;
\* documents of two nodes and a node without label, with every sequence of
\* edges among them and an unknown node, with weights absent, below and
\* above the clamp range
InitPure ==
  /\ env = EnvDefault
  /\ store = <<>>
  /\ graphFile = [p \in Paths |-> FileOk(DocB)]
  /\ graphCache = <<>>
  /\ graphPathCache = ""
  /\ req = [r \in Reqs |-> IdleReq]
  /\ prev = NoPrev
  /\ pure \in
       {[fn |-> "splitIntoChunks", done |-> FALSE, text |-> text,
         chunkSize |-> sizes[1], overlap |-> sizes[2]] :
          text \in UNION {[1..n -> {"a", "b", "SP"}] : n \in 0..MaxTextLen},
          sizes \in {so \in (1..3) \X (0..2) : so[2] < so[1]}}
       \cup
       {[fn |-> "runPersonalizedPageRank", done |-> FALSE, graph |-> buildRuntime(doc),
         seeds |-> seeds, alpha |-> alpha] :
          doc \in {DocA, DocB, [nodes |-> <<Node("n1", <<"a", "b">>, <<>>)>>, edges |-> <<>>]},
          seeds \in UNION {[ids -> {I2F(1), Pct(50)}] : ids \in (SUBSET {"n1", "n2", "n4"}) \ {{}}},
          alpha \in {Pct(60), Pct(85), Pct(99)}}
       \cup
       {[fn |-> "computeGraphWeight", done |-> FALSE, embeddingEnabled |-> enabled,
         confidence |-> confidence,
         cfg |-> [EnvDefault EXCEPT !.RAG_GRAPH_MIN_CONFIDENCE = minConfidence,
                                    !.RAG_GRAPH_MAX_WEIGHT = maxWeight]] :
          enabled \in BOOLEAN, confidence \in {0, Pct(20), Pct(35), Pct(60), I2F(1)},
          minConfidence \in {0, Pct(35)}, maxWeight \in MaxWeights}
       \cup
       {[fn |-> "adaptiveParameters", done |-> FALSE, complexity |-> complexity,
         cfg |-> [EnvDefault EXCEPT !.RAG_GRAPH_PPR_ALPHA = alpha,
                                    !.RAG_GRAPH_TOP_NODES = topNodes]] :
          complexity \in {0, Pct(10), Pct(25), Pct(50), Pct(75), I2F(1)},
          alpha \in {Pct(50), Pct(55), Pct(60), Pct(70), Pct(85), Pct(99)},
          topNodes \in {1, 3, 4, 5, 12, 40}}
       \cup
       {[fn |-> "buildRuntime", done |-> FALSE,
         doc |-> [nodes |-> << Node("n1", <<"a", "b">>, <<>>), Node("n2", <<"qi", "xu">>, <<>>),
                               Node("n9", <<>>, <<>>) >>,
                  edges |-> edges]] :
          edges \in UNION {[1..n -> {Edge(ends[1], ends[2], w[1], w[2], undirected) :
                                       ends \in {<<"n1", "n2">>, <<"n2", "n1">>, <<"n1", "n1">>,
                                                  <<"n9", "n1">>, <<"n1", "zz">>},
                                       w \in {<<FALSE, 0>>, <<TRUE, Mil(5)>>, <<TRUE, I2F(50)>>},
                                       undirected \in BOOLEAN}] : n \in 0..MaxEdges}}
       \cup
       {[fn |-> "channelWeights", done |-> FALSE, embeddingEnabled |-> enabled,
         confidence |-> confidence,
         cfg |-> [EnvDefault EXCEPT !.RAG_GRAPH_MIN_CONFIDENCE = minConfidence,
                                    !.RAG_GRAPH_MAX_WEIGHT = maxWeight]] :
          enabled \in BOOLEAN,
          confidence \in {0, Pct(1), Pct(20), Pct(35), Pct(48), Pct(60), Pct(99), I2F(1)},
          minConfidence \in {0, Pct(35), I2F(1)}, maxWeight \in MaxWeights \cup {I2F(1)}}
       \cup
       {[fn |-> "tokenizeForSearch", done |-> FALSE, input |-> input] :
          input \in UNION {[1..n -> {"qi", "xu", "LF", "SP", ".", "a"}] : n \in 0..(MaxTextLen - 1)}}

\* what the function named in `a` returns for the arguments in `a`
PureResult(a) ==
  CASE a.fn = "splitIntoChunks" -> splitIntoChunks(a.text, a.chunkSize, a.overlap)
    [] a.fn = "runPersonalizedPageRank" -> PprRun(a.graph, a.seeds, a.alpha, PprMaxIter)
    [] a.fn = "computeGraphWeight" ->
         computeGraphWeight(a.embeddingEnabled, a.confidence, a.cfg)
    [] a.fn = "channelWeights" ->
         LET graphWeight == computeGraphWeight(a.embeddingEnabled, a.confidence, a.cfg)
             weights     == ChannelWeights(a.embeddingEnabled, graphWeight)
         IN [graphWeight |-> graphWeight, embeddingWeight |-> weights.embeddingWeight,
             lexicalWeight |-> weights.lexicalWeight]
    [] a.fn = "tokenizeForSearch" -> tokenizeForSearch(a.input)
    [] a.fn = "buildRuntime" -> buildRuntime(a.doc)
    [] a.fn = "adaptiveParameters" ->
         [adaptiveAlpha |-> AdaptiveAlpha(a.complexity, a.cfg),
          adaptiveTopNodes |-> AdaptiveTopNodes(a.complexity, a.cfg)]

\* the function is applied
Apply ==
  /\ ~pure.done
  /\ pure' = [fn |-> pure.fn, done |-> TRUE, args |-> pure, result |-> PureResult(pure)]
  /\ UNCHANGED <<env, store, graphFile, graphCache, graphPathCache, req, prev>>

SpecPure == InitPure /\ [][Apply]_vars

\* runPersonalizedPageRank has been applied to a graph and a seed map
PprApplied == pure.fn = "runPersonalizedPageRank" /\ pure.done

\* C14: runPersonalizedPageRank ends after at least one and at most 30
\* passes; when it ends before the 30th pass, the last pass changed the
\* scores by less than the threshold (they are a fixed point of the pass,
\* to the precision of the model); every score returned is >= 0.
C14_PageRankEndsNonNegative ==
  PprApplied
  => LET a    == pure.args
         run  == pure.result
         sum  == SumSet(a.seeds, DOMAIN a.seeds)
     IN /\ run.iterations >= 1
        /\ run.iterations <= PprMaxIter
        /\ DOMAIN run.scores = SeqToSet(a.graph.nodes)
        /\ \A id \in DOMAIN run.scores : run.scores[id] >= 0
        /\ run.iterations < PprMaxIter
             => SumSet([id \in DOMAIN run.scores |->
                          Abs(PprStep(a.graph, a.seeds, sum, a.alpha, run.scores)[id]
                                - run.scores[id])],
                       DOMAIN run.scores) < 2 * PprDelta

\* a run on a graph with edges that was stopped by the limit of 30 passes
C14_Witness ==
  /\ PprApplied
  /\ pure.result.iterations = PprMaxIter
  /\ \E id \in DOMAIN pure.args.graph.adj : Len(pure.args.graph.adj[id]) > 0
  /\ \E id \in DOMAIN pure.result.scores : pure.result.scores[id] > 0

\* splitIntoChunks has been applied with 0 <= overlap < size
SplitApplied ==
  /\ pure.fn = "splitIntoChunks"
  /\ pure.done
  /\ pure.args.overlap < pure.args.chunkSize

RECURSIVE ConcatHeads(_, _, _)
\* the first chunk whole, then every later chunk without its first
\* `overlap` characters
ConcatHeads(chunks, overlap, first) ==
  IF chunks = <<>> THEN <<>>
  ELSE (IF first THEN chunks[1] ELSE Slice(chunks[1], overlap, Len(chunks[1])))
         \o ConcatHeads(Tail(chunks), overlap, FALSE)

\* C15: the non-overlapping heads of the chunks, concatenated, are
\* normalizeText(text).
C15_HeadsReconstructText ==
  SplitApplied
  => ConcatHeads(pure.result, pure.args.overlap, TRUE) = normalizeText(pure.args.text)

\* C16: every chunk has at most `size` characters, and of two consecutive
\* chunks, other than the last two, the later begins with the last
\* `overlap` characters of the earlier.
C16_ChunksBoundedAndOverlapping ==
  SplitApplied
  => LET chunks == pure.result
         o      == pure.args.overlap
     IN /\ \A i \in 1..Len(chunks) : Len(chunks[i]) <= pure.args.chunkSize
        /\ \A i \in 1..(Len(chunks) - 2) :
             Slice(chunks[i], Len(chunks[i]) - o, Len(chunks[i]))
               = Slice(chunks[i + 1], 0, o)

\* computeGraphWeight has been applied
WeightApplied == pure.fn = "computeGraphWeight" /\ pure.done

\* the minimum weight of the channel: 0.04 with embeddings, 0.05 without
MinGraphWeight(embeddingEnabled) == IF embeddingEnabled THEN Pct(4) ELSE Pct(5)

\* C19 as stated: the weight is 0 below the confidence threshold, and
\* otherwise between the minimum weight of the channel and the configured
\* maximum weight.
C19_WeightWithinConfiguredMax ==
  WeightApplied
  => LET a == pure.args
     IN IF a.confidence < a.cfg.RAG_GRAPH_MIN_CONFIDENCE THEN pure.result = 0
        ELSE /\ pure.result >= MinGraphWeight(a.embeddingEnabled)
             /\ pure.result <= a.cfg.RAG_GRAPH_MAX_WEIGHT

\* C19, amended: the weight is 0 below the confidence threshold; otherwise
\* it is at least the minimum weight of the channel, at most the configured
\* maximum weight when that is not below the minimum weight, and the
\* minimum weight itself when it is.
C19_WeightWithinClamp ==
  WeightApplied
  => LET a == pure.args
     IN IF a.confidence < a.cfg.RAG_GRAPH_MIN_CONFIDENCE THEN pure.result = 0
        ELSE IF a.cfg.RAG_GRAPH_MAX_WEIGHT >= MinGraphWeight(a.embeddingEnabled)
             THEN /\ pure.result >= MinGraphWeight(a.embeddingEnabled)
                  /\ pure.result <= a.cfg.RAG_GRAPH_MAX_WEIGHT
             ELSE pure.result = MinGraphWeight(a.embeddingEnabled)

\* a weight strictly between the minimum weight and the configured maximum
C19_Witness ==
  /\ WeightApplied
  /\ pure.args.confidence >= pure.args.cfg.RAG_GRAPH_MIN_CONFIDENCE
  /\ pure.result > MinGraphWeight(pure.args.embeddingEnabled)
  /\ pure.result < pure.args.cfg.RAG_GRAPH_MAX_WEIGHT

\* ------------------------------------------------------------------------
\* Score ranges
\* ------------------------------------------------------------------------
\* C17: every passage returned has its lexicalScore, embeddingScore,
\* graphScore and rrfScore in [0, 1].
C17_ScoresInUnitInterval ==
  \A r \in Reqs :
    req[r].pc = "done"
    => \A i \in 1..Len(req[r].result) :
         LET item == req[r].result[i]
         IN /\ 0 <= item.lexicalScore /\ item.lexicalScore <= I2F(1)
            /\ 0 <= item.embeddingScore /\ item.embeddingScore <= I2F(1)
            /\ 0 <= item.graphScore /\ item.graphScore <= I2F(1)
            /\ 0 <= item.rrfScore /\ item.rrfScore <= I2F(1)


\* ------------------------------------------------------------------------
\* POST /api/agent/chat to its response: the retrieval, then the completion
\* ------------------------------------------------------------------------
\* the statuses a provider's error carries here; -1 is an error without a
\* numeric status (a timeout, a missing API key)
ErrorStatuses == {-1, 401, 402, 403, 404, 429, 500}

\* createEmbeddings of a chat request settles: status 0 resolves, any other
\* rejects with an error of that status, after withRetry has given up;
\* the catch of retrieveRelevantChunks takes every error alike
EmbedSettled(r, status) ==
  /\ req[r].pc = "embed"
  /\ req[r].via = "chat"
  /\ req' = [req EXCEPT ![r] =
               AfterEmbedding([req[r] EXCEPT !.embedFailed = status # 0, !.embedStatus = status],
                              queryEmbeddingResult(status = 0, req[r].queryText))]
  /\ UNCHANGED <<pure, env, store, graphFile, graphCache, graphPathCache, prev>>

\* createChatCompletion settles: outcome.status 0 is a completion, any other
\* the error thrown once withRetry has given up, with or without a message
ChatCompletionDone(r, outcome) ==
  /\ req[r].pc = "done"
  /\ req[r].via = "chat"
  /\ req' = [req EXCEPT ![r] = [@ EXCEPT !.pc = "answered", !.completion = <<outcome>>]]
  /\ UNCHANGED <<pure, env, store, graphFile, graphCache, graphPathCache, prev>>

\* ragChat with a catch that hands every numeric status through
ragChatResponseLeaky(rq) ==
  IF rq.pc = "rejected" THEN [status |-> 400, message |-> <<"Invalid payload">>]
  ELSE LET error == IF rq.pc = "failed" THEN [status |-> -1, message |-> <<"detail">>]
                    ELSE rq.completion[1]
       IN IF rq.pc = "answered" /\ error.status = 0 THEN [status |-> 200, message |-> <<>>]
          ELSE IF error.status >= 0 THEN [status |-> error.status, message |-> error.message]
          ELSE [status |-> 500, message |-> <<"Agent request failed">>]

\* what ragChat sends for a frame that has ended: 400 for a body that
\* chatSchema refuses, 200 with the answer, or what its catch makes of the
\* error thrown (a store error carries no numeric status)
ragChatResponse(rq) ==
  IF rq.pc = "rejected" THEN [status |-> 400, message |-> <<"Invalid payload">>]
  ELSE LET error  == IF rq.pc = "failed" THEN [status |-> -1, message |-> <<"detail">>]
                     ELSE rq.completion[1]
           status == IF error.status >= 0 THEN error.status ELSE 500
       IN IF rq.pc = "answered" /\ error.status = 0 THEN [status |-> 200, message |-> <<>>]
          ELSE IF status = 401 \/ status = 403 \/ status = 402
               THEN [status |-> status,
                     message |-> IF error.message # <<>> THEN error.message
                                 ELSE <<"LLM provider authorization error">>]
          ELSE IF status = 429
               THEN [status |-> 429, message |-> <<"LLM rate limited, please retry later">>]
          ELSE [status |-> 500, message |-> <<"Agent request failed">>]

\* one chat request at a time, from the body to the response; the frame
\* goes once the response is sent
NextChat ==
  \/ \E message \in ChatMessages, topKOpt \in ChatTopKs : RagChat(1, message, topKOpt)
  \/ \E ok \in BOOLEAN : PrimaryDone(1, ok)
  \/ \E ok \in BOOLEAN : FallbackDone(1, ok)
  \/ ReadGraphDone(1)
  \/ \E status \in {0} \cup ErrorStatuses : EmbedSettled(1, status)
  \/ ChatCompletionDone(1, [status |-> 0, message |-> <<>>])
  \/ \E status \in ErrorStatuses, message \in {<<>>, <<"detail">>} :
       ChatCompletionDone(1, [status |-> status, message |-> message])
  \/ req[1].pc # "done" /\ Return(1)

SpecChat == Init /\ [][NextChat]_vars

\* the statuses of an authorization or rate-limit failure
AuthOrRateLimit == {401, 402, 403, 429}

\* the request has its response
ChatEnded(r) == req[r].via = "chat" /\ req[r].pc \in {"rejected", "failed", "answered"}

\* the completion of request r failed with this status
CompletionFailed(r, status) ==
  req[r].pc = "answered" /\ req[r].completion[1].status = status

\* what holds of the response whatever the embedding provider did: an
\* authorization or rate-limit failure of the LLM provider keeps its status,
\* a refused body gives 400, a store failure or any other LLM failure gives
\* 500 with the fixed message
ChatResponseContract(r) ==
  LET response == ragChatResponse(req[r])
  IN /\ req[r].pc = "rejected" => response.status = 400
     /\ \A status \in AuthOrRateLimit : CompletionFailed(r, status) => response.status = status
     /\ \/ req[r].pc = "failed"
        \/ \E status \in ErrorStatuses \ AuthOrRateLimit : CompletionFailed(r, status)
        => response = [status |-> 500, message |-> <<"Agent request failed">>]

\* C18 (as stated): a chat request is answered with the status of an
\* authorization or rate-limit failure (401, 402, 403, 429) of the embedding
\* provider or of the LLM provider, with 400 for an invalid payload, and
\* with 500 and the fixed generic message for any other failure.
C18_ProviderFailuresKeepStatus ==
  \A r \in Reqs :
    ChatEnded(r) =>
      /\ ChatResponseContract(r)
      /\ req[r].embedStatus \in AuthOrRateLimit /\ CompletionFailed(r, 0)
           => ragChatResponse(req[r]).status = req[r].embedStatus

\* C18 (amended): a chat request is answered with the status of an
\* authorization or rate-limit failure (401, 402, 403, 429) of the LLM
\* provider, with 400 for an invalid payload, and with 500 and the fixed
\* generic message for any other failure of the store or of the LLM provider;
\* a failure of the embedding provider, whatever its status, is no failure
\* of the request: when the completion succeeds the answer is 200.
C18_LlmFailuresKeepStatus ==
  \A r \in Reqs :
    ChatEnded(r) =>
      /\ ChatResponseContract(r)
      /\ CompletionFailed(r, 0) => ragChatResponse(req[r]).status = 200

\* C18 witness: the embedding call was refused with 401, the retrieval went
\* on, the completion was then refused with 403, and 403 is the answer.
C18_Witness ==
  /\ req[1].via = "chat" /\ req[1].pc = "answered"
  /\ req[1].embedStatus = 401
  /\ req[1].result # <<>>
  /\ req[1].completion[1].status = 403
  /\ ragChatResponse(req[1]).status = 403



\* ------------------------------------------------------------------------
\* The fused score of every candidate
\* ------------------------------------------------------------------------
\* a call that has ranked its candidates
Fused(r) == req[r].pc \in {"done", "answered"} /\ req[r].merged # <<>>

\* the 1-based position of candidate i among all candidates in descending
\* order of keys, candidates with equal keys in their order of arrival
PositionOf(keys, i) ==
  1 + Cardinality({j \in 1..Len(keys) : keys[j] > keys[i] \/ (keys[j] = keys[i] /\ j < i)})

\* 1/(60 + embeddingRank) + 1/(60 + lexicalRank) + s/(60 + graphRank)
RrfFormula(merged, i, s) ==
  LET n == Len(merged)
  IN FDiv(I2F(1), I2F(60 + PositionOf([j \in 1..n |-> merged[j].embeddingScore], i)))
       + FDiv(I2F(1), I2F(60 + PositionOf([j \in 1..n |-> merged[j].lexicalScore], i)))
       + FMul(FDiv(I2F(1), I2F(60 + PositionOf([j \in 1..n |-> merged[j].graphScore], i))), s)

\* the retrieval under a configuration whose minimum confidence, 0.5, is
\* above the confidence of some queries
SpecStrict ==
  /\ InitState({<<[EnvDefault EXCEPT !.RAG_GRAPH_MIN_CONFIDENCE = Pct(50)], docs>> :
                   docs \in {StoreSmall, StoreTie}}, FALSE)
  /\ [][Next]_vars

\* C20 (as stated): rrfScore = 1/(60 + embeddingRank) + 1/(60 + lexicalRank)
\* + s/(60 + graphRank) for every candidate, each rank the 1-based position
\* of the candidate among all candidates sorted by that score descending, and
\* s = clamp(confidence * rrfGraphWeight, 0, 1) for every confidence.
C20_RrfScaledByClampedConfidence ==
  \A r \in Reqs :
    Fused(r) =>
      \A i \in 1..Len(req[r].merged) :
        req[r].merged[i].rrfScore =
          RrfFormula(req[r].merged, i,
                     clamp(FMul(req[r].features.confidence, env.RAG_GRAPH_RRF_WEIGHT), 0, I2F(1)))

\* C20 (amended): the same sum over the same ranks, with s = 0 when the
\* confidence is below the minimum confidence of the configuration and
\* s = clamp(confidence * rrfGraphWeight, 0, 1) otherwise.
C20_RrfScaledAboveThreshold ==
  \A r \in Reqs :
    Fused(r) =>
      \A i \in 1..Len(req[r].merged) :
        req[r].merged[i].rrfScore =
          RrfFormula(req[r].merged, i,
                     IF req[r].features.confidence < env.RAG_GRAPH_MIN_CONFIDENCE THEN 0
                     ELSE clamp(FMul(req[r].features.confidence, env.RAG_GRAPH_RRF_WEIGHT),
                                0, I2F(1)))

\* C20 witness: three or more candidates are fused with a confidence that is
\* positive and below the threshold, and two of them tie on a score.
C20_Witness ==
  /\ Fused(1)
  /\ Len(req[1].merged) >= 3
  /\ req[1].features.confidence > 0
  /\ req[1].features.confidence < env.RAG_GRAPH_MIN_CONFIDENCE
  /\ env.RAG_GRAPH_RRF_WEIGHT > 0
  /\ \E i, j \in 1..Len(req[1].merged) :
       i # j /\ req[1].merged[i].graphScore = req[1].merged[j].graphScore

\* ------------------------------------------------------------------------
\* The adaptive parameters of computeGraphQueryFeatures
\* ------------------------------------------------------------------------
\* the adaptive parameters have been computed for a complexity and a
\* configuration
AdaptiveApplied == pure.fn = "adaptiveParameters" /\ pure.done

\* C21 (as stated): for every base restart probability in [0.5, 0.99], base
\* top-node count in 1..40 and complexity in [0, 1],
\* 0.6 <= adaptiveAlpha <= baseAlpha and 4 <= adaptiveTopNodes <= baseTopNodes.
C21_AdaptiveWithinBase ==
  AdaptiveApplied =>
    /\ Pct(60) <= pure.result.adaptiveAlpha
    /\ pure.result.adaptiveAlpha <= pure.args.cfg.RAG_GRAPH_PPR_ALPHA
    /\ 4 <= pure.result.adaptiveTopNodes
    /\ pure.result.adaptiveTopNodes <= pure.args.cfg.RAG_GRAPH_TOP_NODES

\* C21 (amended): 0.6 <= adaptiveAlpha <= max(0.6, baseAlpha) and
\* 4 <= adaptiveTopNodes <= max(4, baseTopNodes): a parameter exceeds its
\* base value only when the base value is below the lower clamp limit, and
\* is then that limit.
C21_AdaptiveWithinClamp ==
  AdaptiveApplied =>
    /\ Pct(60) <= pure.result.adaptiveAlpha
    /\ pure.result.adaptiveAlpha <= Max2(Pct(60), pure.args.cfg.RAG_GRAPH_PPR_ALPHA)
    /\ 4 <= pure.result.adaptiveTopNodes
    /\ pure.result.adaptiveTopNodes <= Max2(4, pure.args.cfg.RAG_GRAPH_TOP_NODES)

\* C21 witness: a base restart probability above 0.6 and a base count above
\* 4, with both adaptive parameters strictly between the limits.
C21_Witness ==
  /\ AdaptiveApplied
  /\ Pct(60) < pure.result.adaptiveAlpha
  /\ pure.result.adaptiveAlpha < pure.args.cfg.RAG_GRAPH_PPR_ALPHA
  /\ 4 < pure.result.adaptiveTopNodes
  /\ pure.result.adaptiveTopNodes < pure.args.cfg.RAG_GRAPH_TOP_NODES

\* ------------------------------------------------------------------------
\* The seed coverage of the graph confidence
\* ------------------------------------------------------------------------
\* C22: the seed coverage of a call lies in [0, 1] and is what the same
\* query gives without a context: tokens that occur only in the context do
\* not raise it.
C22_SeedCoverageOfQueryOnly ==
  \A r \in Reqs :
    req[r].pc \in {"embed", "done"} /\ req[r].graph # <<>> =>
      /\ 0 <= req[r].features.seedCoverage
      /\ req[r].features.seedCoverage <= I2F(1)
      /\ req[r].features.seedCoverage
           = GraphFeaturesOf(req[r].graph, req[r].queryText, NoContext, env).seedCoverage

\* ------------------------------------------------------------------------
\* The Han tokens of tokenizeForSearch
\* ------------------------------------------------------------------------
\* C23: every token of two Han characters that tokenizeForSearch returns is
\* a pair of characters adjacent in the input; Han characters separated by
\* another character (space, newline, punctuation, letter) form no token.
C23_HanTokensAreAdjacentPairs ==
  pure.fn = "tokenizeForSearch" /\ pure.done =>
    \A k \in 1..Len(pure.result) :
      pure.result[k][1] \in HanChars =>
        \E i \in 1..(Len(pure.args.input) - 1) :
          pure.args.input[i] = pure.result[k][1] /\ pure.args.input[i + 1] = pure.result[k][2]

\* ------------------------------------------------------------------------
\* The candidate list of loadCandidates
\* ------------------------------------------------------------------------
\* loadCandidates of call r has returned its list
CandidatesLoaded(r) ==
  /\ req[r].pc \in {"readGraph", "embed", "done"}
  /\ req[r].storeQueries > 0
  /\ ~req[r].storeFailed

\* the passage is a primary substring match of the query of call r
IsPrimaryMatch(r, passage) ==
  /\ Len(CandidateTokens(req[r].queryText)) > 0
  /\ PrimaryMatch(CandidateTokens(req[r].queryText), passage)

\* the candidates of call r, whether or not the ranking went on with them
LoadedCandidates(r) ==
  IF req[r].candidates # <<>> \/ req[r].pc # "done" THEN req[r].candidates ELSE <<>>

\* C24: the candidate list holds no passage twice, has exactly
\* min(candidate limit, store size) passages, with every primary match
\* before every other passage; the fallback query is issued exactly when
\* fewer primary matches than the limit exist; the list is non-empty
\* whenever the store is.
C24_CandidatesFillToLimit ==
  \A r \in Reqs :
    CandidatesLoaded(r) =>
      LET list == LoadedCandidates(r)
          n    == Len(list)
          queriesForTokens == IF Len(CandidateTokens(req[r].queryText)) > 0 THEN 1 ELSE 0
          matches == {i \in 1..Len(store) : IsPrimaryMatch(r, store[i])}
      IN /\ \A i, j \in 1..n : i # j => list[i].id # list[j].id
         /\ \A i \in 1..n : \E k \in 1..Len(store) : store[k] = list[i]
         /\ n = Min2(env.RAG_CANDIDATE_LIMIT, Len(store))
         /\ \A i, j \in 1..n : i < j => ~(~IsPrimaryMatch(r, list[i]) /\ IsPrimaryMatch(r, list[j]))
         /\ (req[r].storeQueries = queriesForTokens + 1)
              <=> (Cardinality(matches) < env.RAG_CANDIDATE_LIMIT)
         /\ req[r].storeQueries \in {queriesForTokens, queriesForTokens + 1}
         /\ Len(store) > 0 => n > 0

\* C24 witness: a list that begins with a primary match and is filled up
\* by the fallback query with a passage that matches no token.
C24_Witness ==
  /\ CandidatesLoaded(1)
  /\ Len(req[1].candidates) >= 2
  /\ IsPrimaryMatch(1, req[1].candidates[1])
  /\ ~IsPrimaryMatch(1, req[1].candidates[Len(req[1].candidates)])
  /\ req[1].storeQueries = 2

\* ------------------------------------------------------------------------
\* The adjacency lists of buildRuntime
\* ------------------------------------------------------------------------
\* buildRuntime has been applied to a document
RuntimeBuilt == pure.fn = "buildRuntime" /\ pure.done

\* the weight an edge of the document is stored with
StoredWeight(edge) ==
  IF ~edge.hasWeight THEN I2F(1)
  ELSE IF edge.weight < Pct(1) THEN Pct(1)
  ELSE IF edge.weight > I2F(10) THEN I2F(10) ELSE edge.weight

\* the edges of the document, by position, whose two ends are nodes of the runtime
KeptEdges(doc, rt) ==
  {i \in 1..Len(doc.edges) :
     doc.edges[i].from \in DOMAIN rt.nodeMap /\ doc.edges[i].to \in DOMAIN rt.nodeMap}

\* the number of adjacency entries from a to b with weight w
EntryCount(rt, a, b, w) ==
  Cardinality({k \in 1..Len(rt.adj[a]) : rt.adj[a][k] = [to |-> b, weight |-> w]})

\* every entry leads from and to a node of the node map, with a weight
\* in [0.01, 10] that is 1 for an edge without weight
EntriesWellFormed(doc, rt) ==
  /\ DOMAIN rt.adj = DOMAIN rt.nodeMap
  /\ \A a \in DOMAIN rt.adj : \A k \in 1..Len(rt.adj[a]) :
       /\ rt.adj[a][k].to \in DOMAIN rt.nodeMap
       /\ rt.adj[a][k].weight >= Pct(1)
       /\ rt.adj[a][k].weight <= I2F(10)
  /\ \A i \in KeptEdges(doc, rt) :
       /\ EntryCount(rt, doc.edges[i].from, doc.edges[i].to, StoredWeight(doc.edges[i])) >= 1
       /\ ~doc.edges[i].hasWeight => StoredWeight(doc.edges[i]) = I2F(1)

\* C25 (as stated): entries lead from and to known nodes, weights lie in
\* [0.01, 10] (1 without a weight), and an edge from a to another node b
\* has a reverse entry from b to a with the same weight exactly when it is
\* marked undirected.
C25_ReverseEntryIffUndirected ==
  RuntimeBuilt =>
    /\ EntriesWellFormed(pure.args.doc, pure.result)
    /\ \A i \in KeptEdges(pure.args.doc, pure.result) :
         LET edge == pure.args.doc.edges[i]
         IN edge.from # edge.to =>
              ((EntryCount(pure.result, edge.to, edge.from, StoredWeight(edge)) >= 1)
                 <=> edge.undirected)

\* C25 (amended): entries lead from and to known nodes, weights lie in
\* [0.01, 10] (1 without a weight); every edge between known nodes adds one
\* entry from a to b and, exactly when it is marked undirected, one entry
\* from b to a with the same weight, and the runtime has no other entries:
\* an edge that is not undirected has a reverse entry where another edge
\* of the document, from b to a with the same stored weight, adds it.
C25_EntriesCountEdges ==
  RuntimeBuilt =>
    LET doc  == pure.args.doc
        rt   == pure.result
        kept == KeptEdges(doc, rt)
    IN /\ EntriesWellFormed(doc, rt)
       /\ \A a, b \in DOMAIN rt.nodeMap : \A w \in {Pct(1), I2F(1), I2F(10)} :
            EntryCount(rt, a, b, w)
              = Cardinality({i \in kept : /\ doc.edges[i].from = a /\ doc.edges[i].to = b
                                          /\ StoredWeight(doc.edges[i]) = w})
                + Cardinality({i \in kept : /\ doc.edges[i].undirected
                                            /\ doc.edges[i].from = b /\ doc.edges[i].to = a
                                            /\ StoredWeight(doc.edges[i]) = w})
       /\ \A a \in DOMAIN rt.adj : \A k \in 1..Len(rt.adj[a]) :
            rt.adj[a][k].weight \in {Pct(1), I2F(1), I2F(10)}

\* C25 witness: a document with an undirected edge whose weight is clamped,
\* an edge to an unknown node that is dropped, and the reverse entry present.
C25_Witness ==
  /\ RuntimeBuilt
  /\ Len(pure.args.doc.edges) = 2
  /\ Cardinality(KeptEdges(pure.args.doc, pure.result)) = 1
  /\ \E i \in KeptEdges(pure.args.doc, pure.result) :
       /\ pure.args.doc.edges[i].undirected
       /\ pure.args.doc.edges[i].from # pure.args.doc.edges[i].to
       /\ pure.args.doc.edges[i].hasWeight
       /\ EntryCount(pure.result, pure.args.doc.edges[i].to, pure.args.doc.edges[i].from,
                     StoredWeight(pure.args.doc.edges[i])) = 1

\* ------------------------------------------------------------------------
\* createEmbeddings of a retrieval, with the retries of withRetry
\* ------------------------------------------------------------------------
\* default of the maxRetries parameter of withRetry
MaxRetries == 3

\* isRetryableError that takes every error for retryable
isRetryableErrorAlways(error) == TRUE

\* isRetryableError: an error is its status and statusCode, -1 for a field
\* that is absent
isRetryableError(error) ==
  LET status == IF error.status # -1 THEN error.status ELSE error.statusCode
  IN IF status # -1 THEN status = 429 \/ status >= 500 ELSE FALSE

\* the provider operation that withRetry called for the embedding of
\* request r settles. `pure` holds the call of withRetry: its position, its
\* attempt counter, the outcomes of its attempts, the waits it made, and
\* whether its caller has taken its result; a call whose result was taken
\* is replaced by the next one. The operation settles with the vector
\* (ok), or with an error that has a status, a statusCode or neither.
AttemptSettled(r, outcome) ==
  /\ outcome \in {[ok |-> TRUE, status |-> -1, statusCode |-> -1]}
                   \cup {[ok |-> FALSE, status |-> s[1], statusCode |-> s[2]] :
                           s \in {<<429, -1>>, <<500, -1>>, <<-1, 503>>, <<400, -1>>,
                                   <<401, -1>>, <<-1, -1>>}}
  /\ req[r].pc = "embed"
  /\ LET started == pure.fn = "withRetry" /\ ~pure.taken
         cur     == IF started THEN pure
                    ELSE [fn |-> "withRetry", pc |-> "calling", attempt |-> 0,
                          outcomes |-> <<>>, sleeps |-> <<>>, taken |-> FALSE]
         attempt == cur.attempt + 1
     IN /\ cur.pc = "calling"
        /\ pure' = IF outcome.ok
                   THEN [cur EXCEPT !.pc = "returned", !.outcomes = Append(@, outcome)]
                   ELSE IF attempt > MaxRetries \/ ~isRetryableError(outcome)
                   THEN [cur EXCEPT !.pc = "thrown", !.attempt = attempt,
                                    !.outcomes = Append(@, outcome)]
                   ELSE [cur EXCEPT !.pc = "sleeping", !.attempt = attempt,
                                    !.outcomes = Append(@, outcome),
                                    !.sleeps = Append(@, 1000 * 2 ^ (attempt - 1))]
  /\ UNCHANGED <<env, store, graphFile, graphCache, graphPathCache, req, prev>>

\* the timer of `await sleep(backoffMs)` fires and the loop calls again
BackoffDone ==
  /\ pure.fn = "withRetry"
  /\ pure.pc = "sleeping"
  /\ pure' = [pure EXCEPT !.pc = "calling"]
  /\ UNCHANGED <<env, store, graphFile, graphCache, graphPathCache, req, prev>>

\* withRetry has returned or thrown: createEmbeddings settles and
\* retrieveRelevantChunks goes on to its end
EmbeddingReturned(r) ==
  /\ req[r].pc = "embed"
  /\ pure.fn = "withRetry"
  /\ pure.pc \in {"returned", "thrown"}
  /\ ~pure.taken
  /\ pure' = [pure EXCEPT !.taken = TRUE]
  /\ req' = [req EXCEPT ![r] =
               AfterEmbedding([req[r] EXCEPT !.embedFailed = pure.pc = "thrown"],
                              queryEmbeddingResult(pure.pc = "returned", req[r].queryText))]
  /\ UNCHANGED <<env, store, graphFile, graphCache, graphPathCache, prev>>

\* retrievals one after another; every provider call settles and every
\* timer fires
SpecRetry ==
  /\ InitState({<<EnvDefault, StoreSmall>>}, FALSE)
  /\ [][\/ \E topK \in {1, 3} : Call(1, QueryFaLi, topK, NoContext)
        \/ \E ok \in BOOLEAN : PrimaryDone(1, ok)
        \/ \E ok \in BOOLEAN : FallbackDone(1, ok)
        \/ ReadGraphDone(1)
        \/ \E outcome \in [ok : BOOLEAN, status : {-1, 400, 401, 429, 500}, statusCode : {-1, 503}] :
           AttemptSettled(1, outcome)
        \/ BackoffDone
        \/ EmbeddingReturned(1)
        \/ Return(1)]_vars
  /\ WF_vars(\E outcome \in [ok : BOOLEAN, status : {-1, 400, 401, 429, 500}, statusCode : {-1, 503}] :
           AttemptSettled(1, outcome))
  /\ WF_vars(BackoffDone)

\* a call of withRetry is recorded
RetryCalled == pure.fn = "withRetry"

\* the status a failure is judged by
EffectiveStatus(error) == IF error.status # -1 THEN error.status ELSE error.statusCode

\* what holds of a call of withRetry at every moment: the operation was
\* invoked at most MaxRetries + 1 times, every failure that was followed by
\* another attempt or a wait has status 429 or >= 500, the n-th wait is
\* 1000 * 2^(n-1) ms, the call returns on the first success and throws the
\* last failure, which is not retryable or is the failure of attempt
\* MaxRetries + 1
RetryDiscipline ==
  RetryCalled =>
    LET n == Len(pure.outcomes)
    IN /\ n <= MaxRetries + 1
       /\ \A i \in 1..Len(pure.sleeps) :
            /\ ~pure.outcomes[i].ok
            /\ EffectiveStatus(pure.outcomes[i]) = 429 \/ EffectiveStatus(pure.outcomes[i]) >= 500
            /\ pure.sleeps[i] = 1000 * 2 ^ (i - 1)
       /\ Len(pure.sleeps) = (IF pure.pc \in {"returned", "thrown"} THEN n - 1 ELSE n)
       /\ pure.pc = "returned" <=> (n > 0 /\ pure.outcomes[n].ok)
       /\ pure.pc = "thrown" =>
            /\ ~pure.outcomes[n].ok
            /\ \/ n = MaxRetries + 1
               \/ ~(EffectiveStatus(pure.outcomes[n]) = 429 \/ EffectiveStatus(pure.outcomes[n]) >= 500)
       /\ pure.pc = "thrown" /\ n <= MaxRetries =>
            ~(EffectiveStatus(pure.outcomes[n]) = 429 \/ EffectiveStatus(pure.outcomes[n]) >= 500)

\* withRetry has ended and its caller has not yet gone on
RetryEnded == RetryCalled /\ pure.pc \in {"returned", "thrown"} /\ ~pure.taken

\* C26: a retrieval calls createEmbeddings at most once; withRetry invokes
\* the provider again only after a failure with status 429 or >= 500, at
\* most 3 times, waiting 1000 * 2^(n-1) ms before the n-th retry; any other
\* failure and the failure of the fourth attempt are thrown; and withRetry
\* always ends, by returning the first success or by throwing.
C26_RetriesOnlyInClient ==
  /\ [](\A r \in Reqs : req[r].embedCalls <= 1)
  /\ []RetryDiscipline
  /\ [](req[1].pc \in {"done", "failed"} /\ req[1].embedCalls = 1 =>
          /\ RetryCalled
          /\ pure.taken
          /\ req[1].embedFailed <=> pure.pc = "thrown")
  /\ (req[1].pc = "embed" /\ ~RetryEnded) ~> RetryEnded

\* C26 witness: three retryable failures with waits of 1000, 2000 and
\* 4000 ms, then a fourth failure, which is thrown; the retrieval has gone
\* on without the embedding.
C26_Witness ==
  /\ RetryCalled
  /\ pure.pc = "thrown"
  /\ Len(pure.outcomes) = 4
  /\ pure.sleeps = <<1000, 2000, 4000>>
  /\ req[1].pc = "done"
  /\ req[1].embedFailed
  /\ req[1].result # <<>>

\* ------------------------------------------------------------------------
\* C29
\* ------------------------------------------------------------------------
\* the three channel weights have been computed
WeightsApplied == pure.fn = "channelWeights" /\ pure.done

\* C29: the three channel weights sum to 1, the embedding weight is 0
\* without a query embedding, and the clamps on the embedding and lexical
\* weights return the value they are given.
C29_ChannelWeightsSumToOne ==
  WeightsApplied
  => LET w  == pure.result
         gw == w.graphWeight
     IN /\ w.embeddingWeight + w.lexicalWeight + gw = Scale
        /\ IF pure.args.embeddingEnabled
           THEN /\ w.embeddingWeight = Pct(76) - FMul(gw, Pct(85))
                /\ w.lexicalWeight = Scale - w.embeddingWeight - gw
           ELSE /\ w.embeddingWeight = 0
                /\ w.lexicalWeight = Scale - gw

\* with a query embedding, full confidence and the default maximum weight:
\* 0.16 for the graph, 0.624 for the embedding, 0.216 for the text
C29_Witness ==
  /\ WeightsApplied
  /\ pure.args.embeddingEnabled
  /\ pure.result.graphWeight = Pct(16)
  /\ pure.result.embeddingWeight = Mil(624)
  /\ pure.result.lexicalWeight = Mil(216)

\* ------------------------------------------------------------------------
\* C28: the graph cache when the resolved path changes
\* ------------------------------------------------------------------------
\* the path that getGraph and readGraphDoc resolve becomes p: the setting
\* or, for a relative setting, the working directory has changed
ChangePath(p) ==
  /\ p # env.RAG_GRAPH_PATH
  /\ env' = [env EXCEPT !.RAG_GRAPH_PATH = p]
  /\ UNCHANGED <<pure, store, graphFile, graphCache, graphPathCache, req, prev>>

\* two requests in flight while the resolved path changes between the two
\* paths; the files stay as they are
SpecPath ==
  /\ InitState({<<EnvTight, StoreSmall>>}, FALSE)
  /\ [][\/ \E r \in Reqs, query \in {QueryFaLi, <<".">>} : Call(r, query, 3, NoContext)
        \/ \E r \in Reqs : PrimaryDone(r, TRUE)
        \/ \E r \in Reqs : FallbackDone(r, TRUE)
        \/ \E r \in Reqs : ReadGraphDone(r)
        \/ \E r \in Reqs : EmbedDone(r, TRUE)
        \/ \E r \in Reqs : Return(r)
        \/ \E p \in Paths : ChangePath(p)]_vars

MaxRuns == 2

createSourceIdFromPath(filePath) ==
  LET RECURSIVE Slashes(_)
      \* .replace(/[\\/]+/g, '/')
      Slashes(t) ==
        IF t = <<>> THEN <<>>
        ELSE IF t[1] \in {"/", "BS"}
             THEN IF Len(t) >= 2 /\ t[2] \in {"/", "BS"}
                  THEN Slashes(Tail(t))
                  ELSE <<"/">> \o Slashes(Tail(t))
             ELSE <<t[1]>> \o Slashes(Tail(t))
      slashed == Slashes(filePath)
      \* .replace(/^\.\//, '')
      rooted  == IF Len(slashed) >= 2 /\ slashed[1] = "." /\ slashed[2] = "/"
                 THEN Slice(slashed, 2, Len(slashed))
                 ELSE slashed
      \* .replace(/[^a-zA-Z0-9/_-]/g, '')
      kept    == SelectSeq(rooted, LAMBDA c : c \in LowerAlnum \cup UpperAlpha
                                                      \cup {"m", "d", "/", "_", "-"})
  IN toLowerCase(kept)

\* ingestKnowledgeFromDirectory is called, no other run being in progress,
\* and collectFiles resolves with `listing`, the supported files under the
\* directory in the order of their paths
IngestStart(listing) ==
  /\ \/ pure.fn = "none"
     \/ /\ pure.fn = "ingestKnowledgeFromDirectory"
        /\ pure.pc \in {"returned", "thrown"}
        /\ pure.run < MaxRuns
  /\ pure' = [fn |-> "ingestKnowledgeFromDirectory", pc |-> "readFile",
              run |-> IF pure.fn = "none" THEN 1 ELSE pure.run + 1,
              clock |-> IF pure.fn = "none" THEN 0 ELSE pure.clock,
              listing |-> listing, files |-> listing, sourceId |-> <<>>,
              drafts |-> <<>>, vectors |-> <<>>, before |-> <<>>, details |-> <<>>]
  /\ UNCHANGED <<env, store, graphFile, graphCache, graphPathCache, req, prev>>

\* the loop of ingestKnowledgeFromDirectory takes the next file, or returns
\* the summary when none is left; fs.readFile of ingestFile settles (ok: it
\* resolves), and ingestFile runs up to `await embedDrafts(drafts)` or
\* returns null.  The texts have no heading line, so parseSectionedText
\* gives the one section {title: sourceTitle, text: normalizeText(raw)}.
IngestFileRead(ok) ==
  /\ pure.fn = "ingestKnowledgeFromDirectory"
  /\ pure.pc = "readFile"
  /\ pure' =
       IF pure.files = <<>> THEN [pure EXCEPT !.pc = "returned"]
       ELSE IF ~ok THEN [pure EXCEPT !.pc = "thrown"]
       ELSE LET file          == Head(pure.files)
                normalizedRaw == normalizeText(file.raw)
                relativePath  == file.path
                slashes       == {i \in 1..Len(relativePath) : relativePath[i] = "/"}
                \* path.basename(filePath)
                base          == IF slashes = {} THEN relativePath
                                 ELSE Slice(relativePath,
                                            CHOOSE i \in slashes : \A j \in slashes : j <= i,
                                            Len(relativePath))
                dots          == {i \in 1..Len(base) : base[i] = "."}
                lastDot       == CHOOSE i \in dots : \A j \in dots : j <= i
                \* stripExt: fileName.replace(/\.[^/.]+$/, '')
                sourceTitle   == IF dots = {} \/ lastDot = Len(base) THEN base
                                 ELSE Slice(base, 0, lastDot - 1)
                chunkTexts    == splitIntoChunks(normalizeText(normalizedRaw),
                                                 env.RAG_CHUNK_SIZE, env.RAG_CHUNK_OVERLAP)
                drafts        == [i \in 1..Len(chunkTexts) |->
                                    [sourceId |-> createSourceIdFromPath(relativePath),
                                     sourceTitle |-> sourceTitle, sourcePath |-> relativePath,
                                     sectionTitle |-> sourceTitle, chunkIndex |-> i - 1,
                                     text |-> chunkTexts[i],
                                     keywords |-> Slice(tokenizeForSearch(chunkTexts[i]), 0, 120)]]
            IN IF normalizedRaw = <<>> \/ Len(drafts) = 0
               THEN [pure EXCEPT !.files = Tail(@)]
               ELSE [pure EXCEPT !.pc = "embedDrafts",
                                 !.sourceId = createSourceIdFromPath(relativePath),
                                 !.drafts = drafts, !.before = store]
  /\ UNCHANGED <<env, store, graphFile, graphCache, graphPathCache, req, prev>>

\* createEmbeddings of embedDrafts settles (the drafts of a file fit one
\* batch): the vectors, or the error, which nothing catches
EmbedDraftsDone(ok) ==
  /\ pure.fn = "ingestKnowledgeFromDirectory"
  /\ pure.pc = "embedDrafts"
  /\ pure' = IF ok
             THEN [pure EXCEPT !.pc = "bulkWrite",
                               !.vectors = [i \in 1..Len(pure.drafts) |->
                                              EmbeddingOf(pure.drafts[i].text)]]
             ELSE [pure EXCEPT !.pc = "thrown"]
  /\ UNCHANGED <<env, store, graphFile, graphCache, graphPathCache, req, prev>>

\* KnowledgeChunk.bulkWrite(bulkOps, {ordered: false}) settles: the
\* operations of the drafts in `applied` took effect, each one an update of
\* the passage with the draft's (sourceId, chunkIndex) or, without such a
\* passage, an insert; it resolves when every operation did
BulkWriteDone(applied) ==
  /\ pure.fn = "ingestKnowledgeFromDirectory"
  /\ pure.pc = "bulkWrite"
  /\ applied \subseteq 1..Len(pure.drafts)
  /\ LET now == pure.clock + 1
         doc(i) == [id |-> <<now, i>>, sourceId |-> pure.drafts[i].sourceId,
                    chunkIndex |-> pure.drafts[i].chunkIndex, text |-> pure.drafts[i].text,
                    sourceTitle |-> pure.drafts[i].sourceTitle,
                    sourcePath |-> pure.drafts[i].sourcePath,
                    sectionTitle |-> pure.drafts[i].sectionTitle,
                    keywords |-> pure.drafts[i].keywords, embedding |-> pure.vectors[i],
                    updatedAt |-> now]
         matches(p, i) == p.sourceId = pure.drafts[i].sourceId
                            /\ p.chunkIndex = pure.drafts[i].chunkIndex
         updated == [k \in 1..Len(store) |->
                       IF \E i \in applied : matches(store[k], i)
                       THEN [doc(CHOOSE i \in applied : matches(store[k], i))
                               EXCEPT !.id = store[k].id]
                       ELSE store[k]]
         inserted == SelectSeq([i \in 1..Len(pure.drafts) |-> doc(i)],
                               LAMBDA d : /\ d.id[2] \in applied
                                          /\ \A k \in 1..Len(store) : ~matches(store[k], d.id[2]))
     IN /\ store' = updated \o inserted
        /\ pure' = [pure EXCEPT !.clock = now,
                                !.pc = IF applied = 1..Len(pure.drafts) THEN "deleteMany"
                                       ELSE "thrown"]
  /\ UNCHANGED <<env, graphFile, graphCache, graphPathCache, req, prev>>

\* deleteMany settles without having removed anything
DeleteManyDoneKeep(ok) ==
  /\ pure.fn = "ingestKnowledgeFromDirectory"
  /\ pure.pc = "deleteMany"
  /\ pure' = IF ok
             THEN [pure EXCEPT !.pc = "readFile", !.files = Tail(@),
                               !.details = Append(@, [sourceId |-> pure.sourceId,
                                                      sourceTitle |-> pure.drafts[1].sourceTitle,
                                                      sourcePath |-> pure.drafts[1].sourcePath,
                                                      chunkCount |-> Len(pure.drafts),
                                                      drafts |-> pure.drafts,
                                                      before |-> pure.before])]
             ELSE [pure EXCEPT !.pc = "thrown"]
  /\ UNCHANGED <<env, store, graphFile, graphCache, graphPathCache, req, prev>>

\* KnowledgeChunk.deleteMany({sourceId, chunkIndex: {$gte: drafts.length}})
\* settles (ok: it resolves); ingestFile returns its result, which the loop
\* pushes
DeleteManyDone(ok) ==
  /\ pure.fn = "ingestKnowledgeFromDirectory"
  /\ pure.pc = "deleteMany"
  /\ store' = IF ok
              THEN SelectSeq(store, LAMBDA p : ~(p.sourceId = pure.sourceId
                                                  /\ p.chunkIndex >= Len(pure.drafts)))
              ELSE store
  /\ pure' = IF ok
             THEN [pure EXCEPT !.pc = "readFile", !.files = Tail(@),
                               !.details = Append(@, [sourceId |-> pure.sourceId,
                                                      sourceTitle |-> pure.drafts[1].sourceTitle,
                                                      sourcePath |-> pure.drafts[1].sourcePath,
                                                      chunkCount |-> Len(pure.drafts),
                                                      drafts |-> pure.drafts,
                                                      before |-> pure.before])]
             ELSE [pure EXCEPT !.pc = "thrown"]
  /\ UNCHANGED <<env, graphFile, graphCache, graphPathCache, req, prev>>

\* runs of the ingest script on an empty collection, with chunks of 3
\* characters that overlap by 1.  The directory holds, from run to run, a
\* file with three, two or one chunk, two files whose names differ in case,
\* two files with Han names, a file and a file of the same name in a
\* subdirectory, a file beside a blank one.
SpecIngest ==
  /\ InitState({<<EnvDefault @@ [RAG_CHUNK_SIZE |-> 3, RAG_CHUNK_OVERLAP |-> 1], <<>> >>}, FALSE)
  /\ [][\/ \E listing \in
             { << [path |-> <<"a", ".", "m", "d">>, raw |-> <<"qi", "xu", "fa", "li", "tiao", "li", "xi">>] >>,
               << [path |-> <<"a", ".", "m", "d">>, raw |-> <<"a", "b", "SP", "c", "1">>] >>,
               << [path |-> <<"a", ".", "m", "d">>, raw |-> <<"a", "b">>] >>,
               << [path |-> <<"A", ".", "m", "d">>, raw |-> <<"c", "1">>],
                  [path |-> <<"a", ".", "m", "d">>, raw |-> <<"a", "b", "SP", "c", "1">>] >>,
               << [path |-> <<"qi", ".", "m", "d">>, raw |-> <<"qi", "xu", "fa", "li">>],
                  [path |-> <<"xu", ".", "m", "d">>, raw |-> <<"xu">>] >>,
               << [path |-> <<"a", ".", "m", "d">>, raw |-> <<"a", "b">>],
                  [path |-> <<"b", "/", "a", ".", "m", "d">>, raw |-> <<"a", "b", "SP", "c", "1">>] >>,
               << [path |-> <<"a", ".", "m", "d">>, raw |-> <<"a", "b", "SP", "c", "1">>],
                  [path |-> <<"c", ".", "m", "d">>, raw |-> <<"SP", "LF">>] >> } :
             IngestStart(listing)
        \/ \E ok \in BOOLEAN : IngestFileRead(ok)
        \/ \E ok \in BOOLEAN : EmbedDraftsDone(ok)
        \/ \E applied \in SUBSET (1..3) : BulkWriteDone(applied)
        \/ \E ok \in BOOLEAN : DeleteManyDone(ok)]_vars

\* ------------------------------------------------------------------------
\* C27, C30
\* ------------------------------------------------------------------------
\* the passages of a collection that carry the source id
PassagesOf(docs, sourceId) == SelectSeq(docs, LAMBDA p : p.sourceId = sourceId)

\* what ingestion stores of a passage or of a draft, apart from the vector
StoredContent(p) ==
  [sourcePath |-> p.sourcePath, chunkIndex |-> p.chunkIndex, text |-> p.text,
   sourceTitle |-> p.sourceTitle, sectionTitle |-> p.sectionTitle, keywords |-> p.keywords]

\* a call of ingestFile has returned its result and nothing was written
\* since
IngestFileCompleted ==
  /\ pure.fn = "ingestKnowledgeFromDirectory"
  /\ pure.pc \in {"readFile", "returned"}
  /\ pure.details # <<>>

\* C27: when ingestFile has completed for a file of n >= 1 chunks, the
\* collection holds for the file's source id one passage for each of the
\* indices 0..n-1 and no other, each with the text of the file's chunk of
\* that index; and when the collection held just these passages before the
\* call, it holds the same passages after it.
C27_IngestLeavesExactlyTheChunks ==
  IngestFileCompleted
  => LET d      == pure.details[Len(pure.details)]
         after  == PassagesOf(store, d.sourceId)
         before == PassagesOf(d.before, d.sourceId)
     IN /\ d.chunkCount >= 1
        /\ Len(after) = d.chunkCount
        /\ {after[k].chunkIndex : k \in 1..Len(after)} = 0..(d.chunkCount - 1)
        /\ \A k \in 1..Len(after) :
             StoredContent(after[k]) = StoredContent(d.drafts[after[k].chunkIndex + 1])
        /\ ({StoredContent(before[k]) : k \in 1..Len(before)}
              = {StoredContent(d.drafts[i]) : i \in 1..Len(d.drafts)}
            => {[id |-> after[k].id, content |-> StoredContent(after[k])] : k \in 1..Len(after)}
                 = {[id |-> before[k].id, content |-> StoredContent(before[k])] :
                      k \in 1..Len(before)})

\* the second run has ingested the file with one chunk where the first run
\* had stored three chunks of it
C27_Witness ==
  /\ IngestFileCompleted
  /\ pure.run = 2
  /\ pure.details[1].chunkCount = 1
  /\ Len(PassagesOf(pure.details[1].before, pure.details[1].sourceId)) = 3
  /\ Len(PassagesOf(store, pure.details[1].sourceId)) = 1

\* C30: when ingestKnowledgeFromDirectory has returned, the collection
\* holds, for every file it ingested, the file's chunks 0..n-1.
C30_EveryIngestedFilePresent ==
  (pure.fn = "ingestKnowledgeFromDirectory" /\ pure.pc = "returned")
  => \A f \in 1..Len(pure.details) :
       \A i \in 1..pure.details[f].chunkCount :
         \E k \in 1..Len(store) :
            StoredContent(store[k]) = StoredContent(pure.details[f].drafts[i])

====
